---- MODULE Spec2Model ----
(***************************************************************************)
(* Model of yeytest's validation and execution pipeline:                   *)
(*   - the dashboard's self-healing loop (web/app.py: handle_self_heal,    *)
(*     run_self_healing_test_background, analyze_and_fix_test);            *)
(*   - the dashboard's single run (web/app.py: handle_run,                 *)
(*     run_test_background);                                               *)
(*   - the step orchestrator (maestro/runner.py: MaestroRunner.run_test),  *)
(*     the validators it calls (validation/local.py, validation/ai.py);    *)
(*   - the video analyzer (video/analyzer.py: VideoAnalyzer.analyze_video). *)
(* Test definitions (YAML texts) are modelled as small naturals, 0 being   *)
(* the empty text; confidences as integer percents.                        *)
(***************************************************************************)
EXTENDS Integers, Sequences, FiniteSets, TLC

\* ------------------------------------------------------------------ bounds
MaxRetries == 3   \* largest maxRetries a request carries
NegRetries == 1   \* requests carry maxRetries down to -NegRetries
MaxYaml == 2      \* distinct non-empty definition texts
MaxSteps == 3     \* longest test case given to MaestroRunner.run_test
MaxExpect == 1    \* longest expectations list of a test case
ImgPixels == 2    \* most pixels of a capture
MaxText == 2      \* longest text on a screen or in an expectation
MaxLines == 2     \* most lines of a provider's answer
MaxFrames == 3    \* most frames extracted from a video
MaxSuite == 2     \* most member tests of a suite

EmptyYaml == 0
Yamls == 1..MaxYaml
YamlTexts == {EmptyYaml} \cup Yamls
RetryValues == (0 - NegRetries)..MaxRetries

VARIABLES
  test_runs,      \* the run registry (app.py 26): run id -> entry
  http_response,  \* status code of handle_self_heal's reply (0: none yet)
  heal_pc,        \* position of the self-healing worker thread
  yaml_content,   \* worker argument: the submitted definition
  device_id,      \* worker argument: [prefix, id], the text prefix + id
  max_retries,    \* worker argument
  current_yaml,   \* worker local
  retry_count,    \* worker local
  android_emulator_info, \* worker local: TRUE when the list is non-empty
  yaml_file,      \* content of <retry dir>/test.yaml, <<>> before any write
  result,         \* outcome of the last runner invocation: "none", "zero", "nonzero"
  raised,         \* exception propagating in the worker: "none", "setup", "timeout", "oserror"
  swallowed,      \* an exception was raised, caught and logged inside an attempt
  maestro_calls,  \* runner invocations, in order: [yaml, out]
  fix_calls,      \* calls of analyze_and_fix_test, in order: [yaml, ret]
  iterations,     \* number of loop iterations entered so far
  run_handler_pc, \* position of handle_run: "idle", "started", "replied"
  run_pc,         \* position of the single-run worker thread
  run_device,     \* worker argument: the device id text
  run_emulators,  \* worker local android_emulator_info: TRUE when non-empty
  run_out,        \* outcome of the worker's runner invocation ("none" before it)
  run_raised,     \* exception that reached the worker's handler ("none" if none)
  orch_pc,        \* position inside MaestroRunner.run_test
  test_case,      \* [steps, expectations]: the lengths of the two lists
  validation_level,    \* self.validation_level
  has_observer,   \* on_step_complete is not None
  i,              \* the loop index of run_test
  previous_screenshot, \* <<>> for None, <<capture id>> otherwise
  screenshot_before,   \* likewise
  screenshot_after,    \* likewise
  maestro_passed, \* the current step's runner result
  validation_result,   \* <<>> for None, a row holding the one verdict otherwise
  step_results,   \* result.step_results
  finished,       \* result.finished_at is set
  captures,       \* number of device captures taken so far (the last capture id)
  runner_log,     \* results of the runner invocations, in order
  validate_log,   \* values _validate_step returned, in order
  observer_log,   \* observer calls: [index, seen], seen the number of outcomes held then
  orch_raised,    \* exception that left run_test ("none" if none)
  events,         \* what run_test has done so far, in order: [ev, step]
  vs_pc,          \* position inside MaestroRunner._validate_step
  vs_level,       \* self.validation_level of the runner validating
  vs_before,      \* argument before: <<>> for None, <<capture id>> otherwise
  vs_expectation, \* argument expectation: <<>> for None, <<text>> otherwise
  vs_local,       \* local_result: <<>> before the call, a row holding the one verdict after
  vs_ret,         \* value _validate_step returned
  local_calls,    \* calls of local_validator.validate_step: [before, expected_text]
  ai_calls,       \* calls of ai_validator.validate: [expectation, context, ret]
  vs_raised,      \* a validator's exception left _validate_step
  lv_pc,          \* position inside LocalValidator.validate_step
  lv_before,      \* argument before: <<>> for None, <<1>> for a path
  lv_after,       \* content of the file after: its pixels, <<>> if unreadable
  lv_expected,    \* argument expected_text: <<>> for None, <<text>> otherwise
  tesseract,      \* self._tesseract_available
  lv_ocr,         \* <<>> before any OCR of after, <<text read>> afterwards
  lv_results,     \* the list results
  lv_ret,         \* <<>> before the return, a row holding the one verdict afterwards
  lv_checks,      \* the checks invoked so far, in order
  lv_raised,      \* an exception left validate_step
  fn_call,        \* the last direct call of a check: [fn, arguments, ret]
  av_pc,          \* position inside AIValidator.validate
  av_provider,    \* self.provider
  av_api_key,     \* self.api_key is set
  av_reply,       \* what the provider call produced, <<>> before it
  av_ret,         \* <<>> before the return, a row holding the one verdict afterwards
  av_raised,      \* exception that left validate ("none" if none)
  va_pc,          \* position inside VideoAnalyzer.analyze_video
  va_tesseract,   \* self.local_validator._tesseract_available
  va_frames,      \* len(frames), the number of frame files extracted
  va_i,           \* the loop index i of detect_anomalies
  va_prev,        \* prev_frame: <<>> is None, <<image>> a frame
  va_anomalies,   \* the list anomalies
  va_seen,        \* per frame so far: could it be read, is its mean luminance low
  va_insights,    \* the list ai_insights
  va_ret,         \* <<>> before the return, a row holding the one result afterwards
  va_raised,      \* exception that left analyze_video ("none" if none)
  suite_handler_pc, \* position of handle_run_suite: "idle", "refused", "started", "replied"
  suite_pc,       \* position of the suite's worker thread
  suite_tests,    \* argument test_ids: what TESTS_DIR holds for each id
  suite_i,        \* position of the loop over test_ids, from 1
  suite_results,  \* the list results: one status per member so far
  suite_out,      \* what the body of the member's run did ("none" before it)
  suite_raised    \* exception that left the suite's worker ("none" if none)

heal_args == <<yaml_content, device_id, max_retries>>
heal_log == <<raised, swallowed, maestro_calls, fix_calls, iterations>>
heal_vars == <<test_runs, http_response, heal_pc, heal_args, current_yaml, retry_count,
               android_emulator_info, yaml_file, result, heal_log>>

run_vars == <<run_handler_pc, run_pc, run_device, run_emulators, run_out, run_raised>>

orch_in == <<test_case, validation_level, has_observer>>
orch_step == <<previous_screenshot, screenshot_before, screenshot_after, maestro_passed,
               validation_result>>
orch_log == <<runner_log, validate_log, observer_log, orch_raised, events>>
orch_vars == <<orch_pc, orch_in, i, orch_step, step_results, finished, captures, orch_log>>

web_vars == <<heal_vars, run_vars>>

vs_vars == <<vs_pc, vs_level, vs_before, vs_expectation, vs_local, vs_ret, local_calls,
             ai_calls, vs_raised>>

lv_vars == <<lv_pc, lv_before, lv_after, lv_expected, tesseract, lv_ocr, lv_results, lv_ret,
             lv_checks, lv_raised, fn_call>>

av_vars == <<av_pc, av_provider, av_api_key, av_reply, av_ret, av_raised>>

valid_vars == <<vs_vars, lv_vars, av_vars>>

va_vars == <<va_pc, va_tesseract, va_frames, va_i, va_prev, va_anomalies, va_seen,
             va_insights, va_ret, va_raised>>

suite_vars == <<suite_handler_pc, suite_pc, suite_tests, suite_i, suite_results, suite_out,
                suite_raised>>

\* the video analyzer and the suite run, which the other parts never touch
side_vars == <<va_vars, suite_vars>>

\* what _validate_step, the local validator and the AI validator leave alone
vs_rest == <<heal_vars, run_vars, orch_vars, lv_vars, av_vars, side_vars>>
lv_rest == <<heal_vars, run_vars, orch_vars, vs_vars, av_vars, side_vars>>
av_rest == <<heal_vars, run_vars, orch_vars, vs_vars, lv_vars, side_vars>>
va_rest == <<heal_vars, run_vars, orch_vars, valid_vars, suite_vars>>

\* what the dashboard's handlers and workers never touch
lib_vars == <<orch_vars, valid_vars, side_vars>>

vars == <<heal_vars, run_vars, orch_vars, valid_vars, side_vars>>

HealId == "heal"
RunId == "run"

Terminal == {"passed", "failed", "error"}
Statuses == {"running"} \cup Terminal

\* a device id text is a prefix ("", "android:" or "ios:") followed by an id
DeviceTexts == [prefix : {"", "android:", "ios:"}, id : {"", "d1"}]
NoDevice == [prefix |-> "", id |-> ""]
DeviceIds == DeviceTexts \ {NoDevice}

\* platform detection (app.py 700-708)
DetectPlatform(d) == IF d.prefix = "ios:" THEN "ios" ELSE "android"

\* actual_device_id (app.py 702-707): the text without a recognised prefix
ActualDeviceId(d) == d.id

\* ------------------------------------------------------- self-healing loop

\* handle_self_heal: a request without yaml or without device is refused (400)
HandleSelfHealReject ==
  /\ heal_pc = "idle"
  /\ http_response = 0
  /\ \E yaml \in YamlTexts, d \in DeviceTexts :
       /\ (yaml = EmptyYaml \/ d = NoDevice)
       /\ http_response' = 400
  /\ UNCHANGED <<lib_vars, run_vars, test_runs, heal_pc, heal_args, current_yaml, retry_count,
                 android_emulator_info, yaml_file, result, heal_log>>

\* handle_self_heal: the worker thread is started with the request's maxRetries,
\* whatever its value
HandleSelfHeal ==
  /\ heal_pc = "idle"
  /\ http_response = 0
  /\ \E yaml \in Yamls, d \in DeviceIds, m \in RetryValues :
       /\ yaml_content' = yaml
       /\ device_id' = d
       /\ max_retries' = m
  /\ heal_pc' = "start"
  /\ http_response' = 200
  /\ UNCHANGED <<lib_vars, run_vars, test_runs, current_yaml, retry_count, android_emulator_info,
                 yaml_file, result, heal_log>>

\* the registry entry the worker creates (app.py 673-681)
NewHealEntry(m) ==
  [status |-> "running", retries |-> << >>, currentRetry |-> 0, maxRetries |-> m,
   finalYaml |-> << >>, hasError |-> FALSE]

\* run_self_healing_test_background, up to the loop (app.py 673-684)
HealStart ==
  /\ heal_pc = "start"
  /\ test_runs' = (HealId :> NewHealEntry(max_retries)) @@ test_runs
  /\ current_yaml' = yaml_content
  /\ retry_count' = 0
  /\ heal_pc' = "loop"
  /\ UNCHANGED <<lib_vars, run_vars, http_response, heal_args, android_emulator_info, yaml_file, result,
                 heal_log>>

\* while retry_count < max_retries: (app.py 686-688)
HealLoopEnter ==
  /\ heal_pc = "loop"
  /\ retry_count < max_retries
  /\ test_runs' = [test_runs EXCEPT ![HealId].currentRetry = retry_count]
  /\ heal_pc' = "setup"
  /\ iterations' = iterations + 1
  /\ UNCHANGED <<lib_vars, run_vars, http_response, heal_args, current_yaml, retry_count,
                 android_emulator_info, yaml_file, result, raised, swallowed,
                 maestro_calls, fix_calls>>

\* the loop condition is false: the function returns, nothing else is written
HealLoopExit ==
  /\ heal_pc = "loop"
  /\ ~(retry_count < max_retries)
  /\ heal_pc' = "returned"
  /\ UNCHANGED <<lib_vars, run_vars, test_runs, http_response, heal_args, current_yaml, retry_count,
                 android_emulator_info, yaml_file, result, heal_log>>

\* the attempt's setup (app.py 692-719): directory, test.yaml, device object.
\* mkdir, write_text and the device constructors can raise.
HealSetup ==
  /\ heal_pc = "setup"
  /\ android_emulator_info' = FALSE
  /\ \E ok \in BOOLEAN :
       IF ok
         THEN /\ yaml_file' = <<current_yaml>>
              /\ heal_pc' = IF DetectPlatform(device_id) = "ios"
                               /\ ActualDeviceId(device_id) # ""
                            THEN "ios_setup" ELSE "maestro"
              /\ raised' = raised
         ELSE /\ yaml_file' = yaml_file
              /\ heal_pc' = "except"
              /\ raised' = "setup"
  /\ UNCHANGED <<lib_vars, run_vars, test_runs, http_response, heal_args, current_yaml, retry_count,
                 result, swallowed, maestro_calls, fix_calls, iterations>>

\* the iOS preparation (app.py 720-751): boot the simulator, list and stop the
\* Android emulators. Its own try/except catches and logs whatever is raised;
\* android_emulator_info is filled only when the block runs to its end.
HealIosSetup ==
  /\ heal_pc = "ios_setup"
  /\ \E out \in {"raised", "no_avds", "avds"} :
       /\ android_emulator_info' = (out = "avds")
       /\ swallowed' = (swallowed \/ out = "raised")
  /\ heal_pc' = "maestro"
  /\ UNCHANGED <<lib_vars, run_vars, test_runs, http_response, heal_args, current_yaml, retry_count,
                 yaml_file, result, raised, maestro_calls, fix_calls, iterations>>

\* what subprocess.run(cmd, ..., timeout=300) can do: return with a return code,
\* raise TimeoutExpired, or raise OSError (no maestro binary)
RunnerOutcomes == {"zero", "nonzero", "timeout", "oserror"}

\* the runner invocation (app.py 753-758)
HealRunMaestro ==
  /\ heal_pc = "maestro"
  /\ \E out \in RunnerOutcomes :
       /\ maestro_calls' = Append(maestro_calls, [yaml |-> yaml_file[1], out |-> out])
       /\ IF out \in {"zero", "nonzero"}
            THEN /\ result' = out
                 /\ heal_pc' = IF android_emulator_info THEN "restart" ELSE "record"
                 /\ raised' = raised
            ELSE /\ result' = result
                 /\ heal_pc' = "except"
                 /\ raised' = out
  /\ UNCHANGED <<lib_vars, run_vars, test_runs, http_response, heal_args, current_yaml, retry_count,
                 android_emulator_info, yaml_file, swallowed, fix_calls, iterations>>

\* the Android emulators are started again (app.py 760-772); a failing Popen is
\* caught and ignored
HealRestartEmulators ==
  /\ heal_pc = "restart"
  /\ \E ok \in BOOLEAN : swallowed' = (swallowed \/ ~ok)
  /\ heal_pc' = "record"
  /\ UNCHANGED <<lib_vars, run_vars, test_runs, http_response, heal_args, current_yaml, retry_count,
                 android_emulator_info, yaml_file, result, raised, maestro_calls,
                 fix_calls, iterations>>

\* retry_result (app.py 774-782)
RetryResult(n, res, yaml) ==
  [retry |-> n, status |-> IF res = "zero" THEN "passed" ELSE "failed", yaml |-> yaml]

\* test_runs[run_id]["retries"].append(retry_result) (app.py 784)
HealRecord ==
  /\ heal_pc = "record"
  /\ test_runs' = [test_runs EXCEPT ![HealId].retries =
                     Append(@, RetryResult(retry_count, result, current_yaml))]
  /\ heal_pc' = "decide"
  /\ UNCHANGED <<lib_vars, run_vars, http_response, heal_args, current_yaml, retry_count,
                 android_emulator_info, yaml_file, result, heal_log>>

\* a variant of HealPassed that records the submitted definition as final
HealPassed_FinalSubmitted ==
  /\ heal_pc = "decide"
  /\ result = "zero"
  /\ test_runs' = [test_runs EXCEPT ![HealId].status = "passed",
                                    ![HealId].finalYaml = <<yaml_content>>]
  /\ heal_pc' = "returned"
  /\ UNCHANGED <<lib_vars, run_vars, http_response, heal_args, current_yaml, retry_count,
                 android_emulator_info, yaml_file, result, heal_log>>

\* if passed: (app.py 786-793)
HealPassed ==
  /\ heal_pc = "decide"
  /\ result = "zero"
  /\ test_runs' = [test_runs EXCEPT ![HealId].status = "passed",
                                    ![HealId].finalYaml = <<current_yaml>>]
  /\ heal_pc' = "returned"
  /\ UNCHANGED <<lib_vars, run_vars, http_response, heal_args, current_yaml, retry_count,
                 android_emulator_info, yaml_file, result, heal_log>>

\* a variant of analyze_and_fix_test that returns the empty definition when
\* the call or the decoding of its reply raises
analyze_and_fix_test_EmptyOnRaise(yaml, api_key, reply) ==
  IF ~api_key THEN yaml
  ELSE IF reply = << >> THEN EmptyYaml
  ELSE reply[1]

\* analyze_and_fix_test (app.py 617-666): without GROQ_API_KEY, or when the call
\* or the decoding of its reply raises, the submitted definition comes back;
\* otherwise the model's text, stripped (possibly empty). reply is <<>> for a
\* failed call and <<text>> for a decoded one.
analyze_and_fix_test(yaml, api_key, reply) ==
  IF ~api_key THEN yaml
  ELSE IF reply = << >> THEN yaml
  ELSE reply[1]

Replies == {<< >>} \cup {<<y>> : y \in YamlTexts}

\* a variant of AttemptsRemain that is off by one
AttemptsRemain_OffByOne(n, m) == n < m

\* if retry_count < max_retries - 1: (app.py 796)
AttemptsRemain(n, m) == n < m - 1

\* a variant of HealRepair that drops the repaired definition
HealRepair_NotAdopted ==
  /\ heal_pc = "decide"
  /\ result # "zero"
  /\ AttemptsRemain(retry_count, max_retries)
  /\ \E api_key \in BOOLEAN, reply \in Replies :
       LET fixed_yaml == analyze_and_fix_test(current_yaml, api_key, reply) IN
         /\ fix_calls' = Append(fix_calls, [yaml |-> current_yaml, ret |-> fixed_yaml])
         /\ current_yaml' = current_yaml
  /\ retry_count' = retry_count + 1
  /\ heal_pc' = "loop"
  /\ UNCHANGED <<lib_vars, run_vars, test_runs, http_response, heal_args, android_emulator_info,
                 yaml_file, result, raised, swallowed, maestro_calls, iterations>>

\* the attempt failed and attempts remain (app.py 795-802)
HealRepair ==
  /\ heal_pc = "decide"
  /\ result # "zero"
  /\ AttemptsRemain(retry_count, max_retries)
  /\ \E api_key \in BOOLEAN, reply \in Replies :
       LET fixed_yaml == analyze_and_fix_test(current_yaml, api_key, reply) IN
         /\ fix_calls' = Append(fix_calls, [yaml |-> current_yaml, ret |-> fixed_yaml])
         /\ current_yaml' = fixed_yaml
  /\ retry_count' = retry_count + 1
  /\ heal_pc' = "loop"
  /\ UNCHANGED <<lib_vars, run_vars, test_runs, http_response, heal_args, android_emulator_info,
                 yaml_file, result, raised, swallowed, maestro_calls, iterations>>

\* the attempt failed and it was the last one (app.py 803-810)
HealExhausted ==
  /\ heal_pc = "decide"
  /\ result # "zero"
  /\ ~AttemptsRemain(retry_count, max_retries)
  /\ test_runs' = [test_runs EXCEPT ![HealId].status = "failed",
                                    ![HealId].finalYaml = <<current_yaml>>]
  /\ heal_pc' = "returned"
  /\ UNCHANGED <<lib_vars, run_vars, http_response, heal_args, current_yaml, retry_count,
                 android_emulator_info, yaml_file, result, heal_log>>

\* a variant of HealExcept that reports the exception as a test failure
HealExcept_Failed ==
  /\ heal_pc = "except"
  /\ test_runs' = [test_runs EXCEPT ![HealId].status = "failed",
                                    ![HealId].hasError = TRUE]
  /\ heal_pc' = "returned"
  /\ UNCHANGED <<lib_vars, run_vars, http_response, heal_args, current_yaml, retry_count,
                 android_emulator_info, yaml_file, result, heal_log>>

\* except Exception as e: (app.py 812-821)
HealExcept ==
  /\ heal_pc = "except"
  /\ test_runs' = [test_runs EXCEPT ![HealId].status = "error",
                                    ![HealId].hasError = TRUE]
  /\ heal_pc' = "returned"
  /\ UNCHANGED <<lib_vars, run_vars, http_response, heal_args, current_yaml, retry_count,
                 android_emulator_info, yaml_file, result, heal_log>>

\* ---------------------------------------------------- dashboard single run

\* the registry entry handle_run creates (app.py 274-280)
NewRunEntry ==
  [status |-> "running", hasError |-> FALSE, beforeScreenshot |-> FALSE,
   afterScreenshot |-> FALSE, finished |-> FALSE]

\* handle_run: a request without yaml is refused (app.py 261-263)
HandleRunReject ==
  /\ run_handler_pc = "idle"
  /\ run_handler_pc' = "refused"
  /\ UNCHANGED <<lib_vars, heal_vars, run_pc, run_device, run_emulators, run_out, run_raised>>

\* handle_run: the worker thread is started (app.py 265-272); the registry
\* entry is written afterwards
HandleRun ==
  /\ run_handler_pc = "idle"
  /\ \E yaml \in Yamls, d \in DeviceTexts : run_device' = d
  /\ run_handler_pc' = "started"
  /\ run_pc' = "setup"
  /\ UNCHANGED <<lib_vars, heal_vars, run_emulators, run_out, run_raised>>

\* handle_run: test_runs[run_id] = {...} and the reply (app.py 274-282)
HandleRunRegister ==
  /\ run_handler_pc = "started"
  /\ test_runs' = (RunId :> NewRunEntry) @@ test_runs
  /\ run_handler_pc' = "replied"
  /\ UNCHANGED <<lib_vars, http_response, heal_pc, heal_args, current_yaml, retry_count,
                 android_emulator_info, yaml_file, result, heal_log, run_pc,
                 run_device, run_emulators, run_out, run_raised>>

heal_rest == <<http_response, heal_pc, heal_args, current_yaml, retry_count,
               android_emulator_info, yaml_file, result, heal_log>>

\* run_test_background, setup (app.py 406-431): directory, test.yaml, platform,
\* device object; any of them can raise
RunSetup ==
  /\ run_pc = "setup"
  /\ \E ok \in BOOLEAN :
       IF ok THEN /\ run_pc' = "before_shot"
                  /\ run_raised' = run_raised
             ELSE /\ run_pc' = "except"
                  /\ run_raised' = "setup"
  /\ UNCHANGED <<lib_vars, heal_vars, run_handler_pc, run_device, run_emulators, run_out>>

\* the before screenshot (app.py 433-441): a failing capture, or a registry
\* entry that is not there yet, is caught and logged
RunBeforeShot ==
  /\ run_pc = "before_shot"
  /\ \E ok \in BOOLEAN :
       test_runs' = IF ok /\ RunId \in DOMAIN test_runs
                      THEN [test_runs EXCEPT ![RunId].beforeScreenshot = TRUE]
                      ELSE test_runs
  /\ run_pc' = IF DetectPlatform(run_device) = "ios" /\ ActualDeviceId(run_device) # ""
               THEN "ios_setup" ELSE "maestro"
  /\ UNCHANGED <<lib_vars, heal_rest, run_handler_pc, run_device, run_emulators, run_out,
                 run_raised>>

\* the iOS preparation (app.py 451-535), inside its own try/except
RunIosSetup ==
  /\ run_pc = "ios_setup"
  /\ \E out \in {"raised", "no_avds", "avds"} : run_emulators' = (out = "avds")
  /\ run_pc' = "maestro"
  /\ UNCHANGED <<lib_vars, heal_vars, run_handler_pc, run_device, run_out, run_raised>>

\* the runner invocation (app.py 537-539)
RunMaestro ==
  /\ run_pc = "maestro"
  /\ \E out \in RunnerOutcomes :
       /\ run_out' = out
       /\ IF out \in {"zero", "nonzero"}
            THEN /\ run_pc' = IF run_emulators THEN "restart" ELSE "after_shot"
                 /\ run_raised' = run_raised
            ELSE /\ run_pc' = "except"
                 /\ run_raised' = out
  /\ UNCHANGED <<lib_vars, heal_vars, run_handler_pc, run_device, run_emulators>>

\* the Android emulators are started again (app.py 541-556)
RunRestartEmulators ==
  /\ run_pc = "restart"
  /\ run_pc' = "after_shot"
  /\ UNCHANGED <<lib_vars, heal_vars, run_handler_pc, run_device, run_emulators, run_out,
                 run_raised>>

\* the after screenshot (app.py 558-566), caught and logged like the first
RunAfterShot ==
  /\ run_pc = "after_shot"
  /\ \E ok \in BOOLEAN :
       test_runs' = IF ok /\ RunId \in DOMAIN test_runs
                      THEN [test_runs EXCEPT ![RunId].afterScreenshot = TRUE]
                      ELSE test_runs
  /\ run_pc' = "update"
  /\ UNCHANGED <<lib_vars, heal_rest, run_handler_pc, run_device, run_emulators, run_out,
                 run_raised>>

\* the status of a run whose runner returned (app.py 569, 579)
RunStatus(out) == IF out = "zero" THEN "passed" ELSE "failed"

\* test_runs[run_id].update({...}) (app.py 568-584); KeyError without an entry
RunUpdate ==
  /\ run_pc = "update"
  /\ IF RunId \in DOMAIN test_runs
       THEN /\ test_runs' = [test_runs EXCEPT ![RunId].status = RunStatus(run_out),
                                              ![RunId].finished = TRUE]
            /\ run_pc' = "save"
            /\ run_raised' = run_raised
       ELSE /\ test_runs' = test_runs
            /\ run_pc' = "except"
            /\ run_raised' = "keyerror"
  /\ UNCHANGED <<lib_vars, heal_rest, run_handler_pc, run_device, run_emulators, run_out>>

\* result.json is written (app.py 586-591); the write can raise
RunSave ==
  /\ run_pc = "save"
  /\ \E ok \in BOOLEAN :
       IF ok THEN /\ run_pc' = "returned"
                  /\ run_raised' = run_raised
             ELSE /\ run_pc' = "except"
                  /\ run_raised' = "save"
  /\ UNCHANGED <<lib_vars, heal_vars, run_handler_pc, run_device, run_emulators, run_out>>

\* except Exception as e: (app.py 593-614); the update raises KeyError out of
\* the handler, ending the thread, when the entry is not there
RunExcept ==
  /\ run_pc = "except"
  /\ IF RunId \in DOMAIN test_runs
       THEN /\ test_runs' = [test_runs EXCEPT ![RunId].status = "error",
                                              ![RunId].hasError = TRUE,
                                              ![RunId].finished = TRUE]
            /\ run_pc' = "returned"
       ELSE /\ test_runs' = test_runs
            /\ run_pc' = "died"
  /\ UNCHANGED <<lib_vars, heal_rest, run_handler_pc, run_device, run_emulators, run_out,
                 run_raised>>

RunInit ==
  /\ run_handler_pc = "idle"
  /\ run_pc = "idle"
  /\ run_device = NoDevice
  /\ run_emulators = FALSE
  /\ run_out = "none"
  /\ run_raised = "none"

RunNext ==
  \/ HandleRunReject
  \/ HandleRun
  \/ HandleRunRegister
  \/ RunSetup
  \/ RunBeforeShot
  \/ RunIosSetup
  \/ RunMaestro
  \/ RunRestartEmulators
  \/ RunAfterShot
  \/ RunUpdate
  \/ RunSave
  \/ RunExcept

\* ------------------------------------------------------- step orchestrator

Levels == {"none", "local", "ai", "hybrid"}

\* self.ai_validator is set for the levels ai and hybrid (runner.py 54-56)
HasAIValidator(level) == level \in {"ai", "hybrid"}

\* test_case.expectations[i] if i < len(test_case.expectations) else None
\* (runner.py 161); the expectation texts of the model are non-empty
ExpectationOf(tc, n) == IF n < tc.expectations THEN <<1>> ELSE << >>

\* Python truth of an Optional[str]
Truthy(e) == e # << >> /\ e[1] # 0

\* verdicts LocalValidator.validate_step returns (local.py 194-234): the
\* pixel check fails only when there is a before capture, the text check only
\* when a text is expected
LocalResults(before, expectation) ==
  {[passed |-> TRUE, confidence |-> 80, method |-> "local_combined"],
   [passed |-> TRUE, confidence |-> 65, method |-> "local_combined"],
   [passed |-> FALSE, confidence |-> 90, method |-> "error_detection"]}
  \cup (IF before # << >>
          THEN {[passed |-> FALSE, confidence |-> 90, method |-> "pixel_diff"]}
          ELSE {})
  \cup (IF Truthy(expectation)
          THEN {[passed |-> FALSE, confidence |-> 85, method |-> "ocr"]}
          ELSE {})

\* verdicts AIValidator.validate returns (ai.py 53-59, 123-129, 204-234)
AIResults ==
  {[passed |-> TRUE, confidence |-> 95, method |-> "ai_vision"],
   [passed |-> FALSE, confidence |-> 90, method |-> "ai_vision"],
   [passed |-> TRUE, confidence |-> 0, method |-> "ai_skipped"],
   [passed |-> TRUE, confidence |-> 0, method |-> "ai_error"]}

\* MaestroRunner._validate_step (runner.py 191-233), given what the two
\* validators return when called
ValidateStep(level, ai_validator, expectation, local_result, ai_result) ==
  IF level = "none" THEN << >>
  ELSE IF level \in {"local", "hybrid"} THEN
    IF level = "hybrid" THEN
      IF local_result.passed /\ local_result.confidence >= 80 THEN <<local_result>>
      ELSE IF ai_validator /\ Truthy(expectation) THEN <<ai_result>>
      ELSE <<local_result>>
    ELSE <<local_result>>
  ELSE IF level = "ai" /\ ai_validator THEN <<ai_result>>
  ELSE << >>

\* StepResult.status (models.py 56-64)
StepStatus(sr) ==
  IF ~sr.maestro_passed THEN "failed"
  ELSE IF sr.validation_result = << >> THEN "passed"
  ELSE IF ~sr.validation_result[1].passed THEN "visual_mismatch"
  ELSE "passed"

\* a variant of TrulyPassed that lets a passed verdict outweigh the runner
TrulyPassed_VerdictWins(sr) ==
  IF sr.validation_result = << >> THEN sr.maestro_passed
                                  ELSE sr.validation_result[1].passed

\* StepResult.truly_passed (models.py 66-71)
TrulyPassed(sr) ==
  sr.maestro_passed /\ (sr.validation_result = << >> \/ sr.validation_result[1].passed)

\* TestResult.passed (models.py 90-92)
TestResultPassed(results) == \A k \in DOMAIN results : TrulyPassed(results[k])

\* sum(1 for s in results if ...) (models.py 103-106)
RECURSIVE CountTrulyPassed(_)
CountTrulyPassed(results) ==
  IF results = << >> THEN 0
  ELSE (IF TrulyPassed(results[1]) THEN 1 ELSE 0) + CountTrulyPassed(Tail(results))

RECURSIVE CountVisualMismatch(_)
CountVisualMismatch(results) ==
  IF results = << >> THEN 0
  ELSE (IF StepStatus(results[1]) = "visual_mismatch" THEN 1 ELSE 0)
         + CountVisualMismatch(Tail(results))

\* a variant of Summary whose failed counts only the steps the runner failed
Summary_RunnerFailures(results) ==
  [total_steps |-> Len(results),
   passed |-> CountTrulyPassed(results),
   failed |-> Len(results) - CountTrulyPassed(results) - CountVisualMismatch(results),
   visual_mismatches |-> CountVisualMismatch(results)]

\* TestResult.summary (models.py 100-113), without the duration
Summary(results) ==
  [total_steps |-> Len(results),
   passed |-> CountTrulyPassed(results),
   failed |-> Len(results) - CountTrulyPassed(results),
   visual_mismatches |-> CountVisualMismatch(results)]

\* one entry of the run's trace: what was done, and for which step
Event(ev, step) == [ev |-> ev, step |-> step]

\* run_test is called with a test case (runner.py 105-109)
RunTestCall ==
  /\ orch_pc = "idle"
  /\ \E n \in 0..MaxSteps, e \in 0..MaxExpect, level \in Levels, obs \in BOOLEAN :
       /\ test_case' = [steps |-> n, expectations |-> e]
       /\ validation_level' = level
       /\ has_observer' = obs
  /\ orch_pc' = "validate_maestro"
  /\ UNCHANGED <<web_vars, valid_vars, side_vars, i, orch_step, step_results, finished, captures, orch_log>>

\* self._validate_maestro() and the output directories (runner.py 117-130)
ValidateMaestro ==
  /\ orch_pc = "validate_maestro"
  /\ \E ok \in BOOLEAN :
       IF ok THEN /\ orch_pc' = "loop"
                  /\ orch_raised' = orch_raised
             ELSE /\ orch_pc' = "raised"
                  /\ orch_raised' = "maestro"
  /\ UNCHANGED <<web_vars, valid_vars, side_vars, orch_in, i, orch_step, step_results, finished, captures,
                 runner_log, validate_log, observer_log, events>>

\* for i, step in enumerate(test_case.steps): one more step (runner.py 132-133)
OrchNextStep ==
  /\ orch_pc = "loop"
  /\ i < test_case.steps
  /\ orch_pc' = "before"
  /\ UNCHANGED <<web_vars, valid_vars, side_vars, orch_in, i, orch_step, step_results, finished, captures,
                 orch_log>>

\* the steps are exhausted (runner.py 188-189)
OrchFinish ==
  /\ orch_pc = "loop"
  /\ ~(i < test_case.steps)
  /\ finished' = TRUE
  /\ events' = Append(events, Event("finished", i))
  /\ orch_pc' = "returned"
  /\ UNCHANGED <<web_vars, valid_vars, side_vars, orch_in, i, orch_step, step_results, captures,
                 runner_log, validate_log, observer_log, orch_raised>>

\* a variant of OrchBefore that takes a fresh capture before every step
OrchBefore_AlwaysFresh ==
  /\ orch_pc = "before"
  /\ events' = Append(events, Event("pre_capture", i))
  /\ \E ok \in BOOLEAN :
       IF ok THEN /\ screenshot_before' = <<captures + 1>>
                  /\ captures' = captures + 1
             ELSE /\ screenshot_before' = << >>
                  /\ captures' = captures
  /\ orch_pc' = "run_step"
  /\ UNCHANGED <<web_vars, valid_vars, side_vars, orch_in, i, previous_screenshot, screenshot_after,
                 maestro_passed, validation_result, step_results, finished, runner_log,
                 validate_log, observer_log, orch_raised>>

\* 1. screenshot before (runner.py 135-145): the previous step's capture, or a
\* fresh one whose failure is ignored
OrchBefore ==
  /\ orch_pc = "before"
  /\ IF previous_screenshot # << >>
       THEN /\ screenshot_before' = previous_screenshot
            /\ captures' = captures
            /\ events' = events
       ELSE /\ events' = Append(events, Event("pre_capture", i))
            /\ \E ok \in BOOLEAN :
                 IF ok THEN /\ screenshot_before' = <<captures + 1>>
                            /\ captures' = captures + 1
                       ELSE /\ screenshot_before' = << >>
                            /\ captures' = captures
  /\ orch_pc' = "run_step"
  /\ UNCHANGED <<web_vars, valid_vars, side_vars, orch_in, i, previous_screenshot, screenshot_after,
                 maestro_passed, validation_result, step_results, finished, runner_log,
                 validate_log, observer_log, orch_raised>>

\* a variant of OrchRunStep that invokes the runner again on a step it failed
OrchRunStep_Retry ==
  /\ orch_pc = "run_step"
  /\ \E passed \in BOOLEAN :
       /\ maestro_passed' = passed
       /\ runner_log' = Append(runner_log, passed)
       /\ orch_pc' = IF passed \/ Len(runner_log) > i THEN "after" ELSE "run_step"
  /\ events' = Append(events, Event("runner", i))
  /\ UNCHANGED <<web_vars, valid_vars, side_vars, orch_in, i, previous_screenshot, screenshot_before,
                 screenshot_after, validation_result, step_results, finished, captures,
                 validate_log, observer_log, orch_raised>>

\* 2. the runner is invoked on the step (runner.py 147-149)
OrchRunStep ==
  /\ orch_pc = "run_step"
  /\ \E passed \in BOOLEAN :
       /\ maestro_passed' = passed
       /\ runner_log' = Append(runner_log, passed)
  /\ events' = Append(events, Event("runner", i))
  /\ orch_pc' = "after"
  /\ UNCHANGED <<web_vars, valid_vars, side_vars, orch_in, i, previous_screenshot, screenshot_before,
                 screenshot_after, validation_result, step_results, finished, captures,
                 validate_log, observer_log, orch_raised>>

\* 3. screenshot after (runner.py 151-155): ADBError is not caught
OrchAfter ==
  /\ orch_pc = "after"
  /\ events' = Append(events, Event("post_capture", i))
  /\ \E ok \in BOOLEAN :
       IF ok THEN /\ screenshot_after' = <<captures + 1>>
                  /\ previous_screenshot' = <<captures + 1>>
                  /\ captures' = captures + 1
                  /\ orch_pc' = "validate"
                  /\ orch_raised' = orch_raised
             ELSE /\ UNCHANGED <<screenshot_after, previous_screenshot, captures>>
                  /\ orch_pc' = "raised"
                  /\ orch_raised' = "capture"
  /\ UNCHANGED <<web_vars, valid_vars, side_vars, orch_in, i, screenshot_before, maestro_passed,
                 validation_result, step_results, finished, runner_log, validate_log,
                 observer_log>>

\* 4. validate (runner.py 157-163). What a validator raises and does not catch
\* itself (the OCR call of the local checks, the decoding of the provider's
\* reply) leaves run_test.
OrchValidate ==
  /\ orch_pc = "validate"
  /\ events' = Append(events, Event("validate", i))
  /\ LET expectation == ExpectationOf(test_case, i) IN
       \E local_result \in LocalResults(screenshot_before, expectation),
          ai_result \in AIResults, raises \in BOOLEAN :
         LET v == ValidateStep(validation_level, HasAIValidator(validation_level),
                               expectation, local_result, ai_result) IN
           IF raises /\ validation_level # "none"
             THEN /\ orch_pc' = "raised"
                  /\ orch_raised' = "validate"
                  /\ UNCHANGED <<validation_result, validate_log>>
             ELSE /\ orch_pc' = "append"
                  /\ orch_raised' = orch_raised
                  /\ validation_result' = v
                  /\ validate_log' = Append(validate_log, v)
  /\ UNCHANGED <<web_vars, valid_vars, side_vars, orch_in, i, previous_screenshot, screenshot_before,
                 screenshot_after, maestro_passed, step_results, finished, captures,
                 runner_log, observer_log>>

\* StepResult(...) (runner.py 165-176)
StepResult(index, passed, verdict, before, after) ==
  [index |-> index, maestro_passed |-> passed, validation_result |-> verdict,
   screenshot_before |-> before, screenshot_after |-> after,
   has_error_message |-> ~passed]

\* a variant of OrchAppend that stops the run at the first step that did not
\* truly pass
OrchAppend_FailFast ==
  /\ orch_pc = "append"
  /\ step_results' = Append(step_results,
                            StepResult(i, maestro_passed, validation_result,
                                       screenshot_before, screenshot_after))
  /\ IF ~maestro_passed
       THEN /\ orch_pc' = "loop"
            /\ i' = test_case.steps
       ELSE IF has_observer
         THEN /\ orch_pc' = "observer"
              /\ i' = i
         ELSE /\ orch_pc' = "loop"
              /\ i' = i + 1
  /\ events' = Append(events, Event("append", i))
  /\ UNCHANGED <<web_vars, valid_vars, side_vars, orch_in, orch_step, finished, captures, runner_log,
                 validate_log, observer_log, orch_raised>>

\* result.step_results.append(step_result) (runner.py 165-178)
OrchAppend ==
  /\ orch_pc = "append"
  /\ step_results' = Append(step_results,
                            StepResult(i, maestro_passed, validation_result,
                                       screenshot_before, screenshot_after))
  /\ IF has_observer
       THEN /\ orch_pc' = "observer"
            /\ i' = i
       ELSE /\ orch_pc' = "loop"
            /\ i' = i + 1
  /\ events' = Append(events, Event("append", i))
  /\ UNCHANGED <<web_vars, valid_vars, side_vars, orch_in, orch_step, finished, captures, runner_log,
                 validate_log, observer_log, orch_raised>>

\* a variant of OrchObserver in which an observer that returns False ends the
\* run after the step
OrchObserver_StopOnFalse ==
  /\ orch_pc = "observer"
  /\ events' = Append(events, Event("observer", i))
  /\ observer_log' = Append(observer_log, [index |-> step_results[Len(step_results)].index,
                                           seen |-> Len(step_results)])
  /\ \E ok \in BOOLEAN, ret \in BOOLEAN :
       IF ok THEN /\ orch_pc' = "loop"
                  /\ i' = IF ret THEN i + 1 ELSE test_case.steps
                  /\ orch_raised' = orch_raised
             ELSE /\ orch_pc' = "raised"
                  /\ i' = i
                  /\ orch_raised' = "observer"
  /\ UNCHANGED <<web_vars, valid_vars, side_vars, orch_in, orch_step, step_results, finished, captures,
                 runner_log, validate_log>>

\* on_step_complete(step_result) (runner.py 180-186); what the observer
\* returns is dropped, what it raises leaves run_test
OrchObserver ==
  /\ orch_pc = "observer"
  /\ events' = Append(events, Event("observer", i))
  /\ observer_log' = Append(observer_log, [index |-> step_results[Len(step_results)].index,
                                           seen |-> Len(step_results)])
  /\ \E ok \in BOOLEAN, ret \in BOOLEAN :
       IF ok THEN /\ orch_pc' = "loop"
                  /\ i' = i + 1
                  /\ orch_raised' = orch_raised
             ELSE /\ orch_pc' = "raised"
                  /\ i' = i
                  /\ orch_raised' = "observer"
  /\ UNCHANGED <<web_vars, valid_vars, side_vars, orch_in, orch_step, step_results, finished, captures,
                 runner_log, validate_log>>

OrchInit ==
  /\ orch_pc = "idle"
  /\ test_case = [steps |-> 0, expectations |-> 0]
  /\ validation_level = "hybrid"
  /\ has_observer = FALSE
  /\ i = 0
  /\ previous_screenshot = << >>
  /\ screenshot_before = << >>
  /\ screenshot_after = << >>
  /\ maestro_passed = FALSE
  /\ validation_result = << >>
  /\ step_results = << >>
  /\ finished = FALSE
  /\ captures = 0
  /\ runner_log = << >>
  /\ validate_log = << >>
  /\ observer_log = << >>
  /\ orch_raised = "none"
  /\ events = << >>

OrchNext ==
  \/ RunTestCall
  \/ ValidateMaestro
  \/ OrchNextStep
  \/ OrchFinish
  \/ OrchBefore
  \/ OrchRunStep
  \/ OrchAfter
  \/ OrchValidate
  \/ OrchAppend
  \/ OrchObserver

\* ----------------------------------------- MaestroRunner._validate_step

\* the argument expectation: None, the empty text, a text (runner.py 161, 195)
Expectations == {<< >>, <<0>>, <<1>>}

\* "Adım başarıyla tamamlandı" (runner.py 230), a text no step expects
FallbackPhrase == 2

\* a variant of HighConfidencePass that also lets every failed local verdict
\* through the gate
HighConfidencePass_OrFailed(r) == ~r.passed \/ r.confidence >= 80

\* local_result.passed and local_result.confidence >= 0.8 (runner.py 212)
HighConfidencePass(r) == r.passed /\ r.confidence >= 80

\* a variant of ExpectationOrFallback that hands an absent expectation on as
\* the empty text
ExpectationOrFallback_Empty(expectation) ==
  IF Truthy(expectation) THEN expectation[1] ELSE 0

\* expectation or "Adım başarıyla tamamlandı" (runner.py 230)
ExpectationOrFallback(expectation) ==
  IF Truthy(expectation) THEN expectation[1] ELSE FallbackPhrase

\* _validate_step is called on a step's captures and expectation by a runner
\* whose ai_validator the constructor set (runner.py 54-56, 191-197)
ValidateStepCall ==
  /\ vs_pc = "idle"
  /\ \E level \in Levels, before \in {<< >>, <<1>>}, expectation \in Expectations :
       /\ vs_level' = level
       /\ vs_before' = before
       /\ vs_expectation' = expectation
  /\ vs_pc' = "level"
  /\ UNCHANGED <<vs_rest, vs_local, vs_ret, local_calls, ai_calls, vs_raised>>

\* if self.validation_level == ValidationLevel.NONE: return None
\* (runner.py 199-200)
VsNone ==
  /\ vs_pc = "level"
  /\ vs_level = "none"
  /\ vs_ret' = << >>
  /\ vs_pc' = "returned"
  /\ UNCHANGED <<vs_rest, vs_level, vs_before, vs_expectation, vs_local,
                 local_calls, ai_calls, vs_raised>>

\* local_result = self.local_validator.validate_step(...) under local and
\* hybrid (runner.py 203-208); what the local validator raises is not caught
VsLocal ==
  /\ vs_pc = "level"
  /\ vs_level \in {"local", "hybrid"}
  /\ local_calls' = Append(local_calls,
                           [before |-> vs_before, expected_text |-> vs_expectation])
  /\ \/ /\ \E r \in LocalResults(vs_before, vs_expectation) : vs_local' = <<r>>
        /\ vs_pc' = IF vs_level = "hybrid" THEN "hybrid" ELSE "local_return"
        /\ vs_raised' = vs_raised
     \/ /\ vs_local' = vs_local
        /\ vs_pc' = "raised"
        /\ vs_raised' = TRUE
  /\ UNCHANGED <<vs_rest, vs_level, vs_before, vs_expectation, vs_ret,
                 ai_calls>>

\* a variant of VsHybridLocal that asks the AI validator for a second opinion
\* on a local pass of high confidence
VsHybridLocal_SecondOpinion ==
  /\ vs_pc = "hybrid"
  /\ HighConfidencePass(vs_local[1])
  /\ \E a \in AIResults :
       ai_calls' = Append(ai_calls, [expectation |-> ExpectationOrFallback(vs_expectation),
                                     context |-> TRUE, ret |-> <<a>>])
  /\ vs_ret' = vs_local
  /\ vs_pc' = "returned"
  /\ UNCHANGED <<vs_rest, vs_level, vs_before, vs_expectation, vs_local,
                 local_calls, vs_raised>>

\* hybrid: a local pass of high confidence is returned at once
\* (runner.py 211-213)
VsHybridLocal ==
  /\ vs_pc = "hybrid"
  /\ HighConfidencePass(vs_local[1])
  /\ vs_ret' = vs_local
  /\ vs_pc' = "returned"
  /\ UNCHANGED <<vs_rest, vs_level, vs_before, vs_expectation, vs_local,
                 local_calls, ai_calls, vs_raised>>

\* if self.ai_validator and expectation (runner.py 216)
Escalates(level, expectation) == HasAIValidator(level) /\ Truthy(expectation)

\* a variant of VsHybridAI that keeps the local verdict when the AI validator
\* could not judge
VsHybridAI_KeepLocal ==
  /\ vs_pc = "hybrid"
  /\ ~HighConfidencePass(vs_local[1])
  /\ Escalates(vs_level, vs_expectation)
  /\ \E a \in AIResults, raises \in BOOLEAN :
       /\ ai_calls' = Append(ai_calls, [expectation |-> vs_expectation[1], context |-> TRUE,
                                        ret |-> IF raises THEN << >> ELSE <<a>>])
       /\ IF raises
            THEN /\ vs_pc' = "raised"
                 /\ vs_raised' = TRUE
                 /\ vs_ret' = vs_ret
            ELSE /\ vs_pc' = "returned"
                 /\ vs_raised' = vs_raised
                 /\ vs_ret' = IF a.method = "ai_vision" THEN <<a>> ELSE vs_local
  /\ UNCHANGED <<vs_rest, vs_level, vs_before, vs_expectation, vs_local,
                 local_calls>>

\* hybrid: the local verdict is uncertain or failed, a validator is configured
\* and the step has an expectation: the AI validator's verdict is returned
\* (runner.py 215-222)
VsHybridAI ==
  /\ vs_pc = "hybrid"
  /\ ~HighConfidencePass(vs_local[1])
  /\ Escalates(vs_level, vs_expectation)
  /\ \E a \in AIResults, raises \in BOOLEAN :
       /\ ai_calls' = Append(ai_calls, [expectation |-> vs_expectation[1], context |-> TRUE,
                                        ret |-> IF raises THEN << >> ELSE <<a>>])
       /\ IF raises
            THEN /\ vs_pc' = "raised"
                 /\ vs_raised' = TRUE
                 /\ vs_ret' = vs_ret
            ELSE /\ vs_pc' = "returned"
                 /\ vs_raised' = vs_raised
                 /\ vs_ret' = <<a>>
  /\ UNCHANGED <<vs_rest, vs_level, vs_before, vs_expectation, vs_local,
                 local_calls>>

\* a variant of VsLocalReturn that withholds a failed local verdict
VsLocalReturn_DropFailed ==
  /\ \/ vs_pc = "local_return"
     \/ /\ vs_pc = "hybrid"
        /\ ~HighConfidencePass(vs_local[1])
        /\ ~Escalates(vs_level, vs_expectation)
  /\ vs_ret' = IF vs_local[1].passed THEN vs_local ELSE << >>
  /\ vs_pc' = "returned"
  /\ UNCHANGED <<vs_rest, vs_level, vs_before, vs_expectation, vs_local,
                 local_calls, ai_calls, vs_raised>>

\* return local_result (runner.py 224): level local, or hybrid without
\* escalation
VsLocalReturn ==
  /\ \/ vs_pc = "local_return"
     \/ /\ vs_pc = "hybrid"
        /\ ~HighConfidencePass(vs_local[1])
        /\ ~Escalates(vs_level, vs_expectation)
  /\ vs_ret' = vs_local
  /\ vs_pc' = "returned"
  /\ UNCHANGED <<vs_rest, vs_level, vs_before, vs_expectation, vs_local,
                 local_calls, ai_calls, vs_raised>>

\* AI only (runner.py 226-231); the constructor configures the validator for
\* this level, so the final return None (runner.py 233) is not reached
VsAIOnly ==
  /\ vs_pc = "level"
  /\ vs_level = "ai"
  /\ HasAIValidator(vs_level)
  /\ \E a \in AIResults, raises \in BOOLEAN :
       /\ ai_calls' = Append(ai_calls, [expectation |-> ExpectationOrFallback(vs_expectation), context |-> FALSE,
                                        ret |-> IF raises THEN << >> ELSE <<a>>])
       /\ IF raises
            THEN /\ vs_pc' = "raised"
                 /\ vs_raised' = TRUE
                 /\ vs_ret' = vs_ret
            ELSE /\ vs_pc' = "returned"
                 /\ vs_raised' = vs_raised
                 /\ vs_ret' = <<a>>
  /\ UNCHANGED <<vs_rest, vs_level, vs_before, vs_expectation, vs_local,
                 local_calls>>

VsInit ==
  /\ vs_pc = "idle"
  /\ vs_level = "hybrid"
  /\ vs_before = << >>
  /\ vs_expectation = << >>
  /\ vs_local = << >>
  /\ vs_ret = << >>
  /\ local_calls = << >>
  /\ ai_calls = << >>
  /\ vs_raised = FALSE

VsNext ==
  \/ ValidateStepCall
  \/ VsNone
  \/ VsLocal
  \/ VsHybridLocal
  \/ VsHybridAI
  \/ VsLocalReturn
  \/ VsAIOnly

\* ------------------------------------------------------- LocalValidator

\* a capture file holds a row of pixels; << >> is a file cv2.imread cannot
\* read (it returns None)
Colours == {"black", "red"}

Unreadable == << >>

Pixels == UNION {[1..n -> Colours] : n \in 1..ImgPixels}

Images == {Unreadable} \cup Pixels

\* the letters of the texts on a screen and in an expectation; the error word
\* list of detect_error_indicators (local.py 169) is cut down to the word "e"
Chars == {"w", "W", "e"}

Texts == UNION {[1..n -> Chars] : n \in 0..MaxText}

ErrorWords == {<<"e">>}

\* str.lower()
LowerChar(c) == IF c = "W" THEN "w" ELSE c

Lower(text) == [k \in DOMAIN text |-> LowerChar(text[k])]

\* needle in hay, for two strings
Contains(needle, hay) ==
  \E s \in 0..(Len(hay) - Len(needle)) :
    \A k \in 1..Len(needle) : hay[s + k] = needle[k]

\* Python truth of an Optional[str] whose texts are rows of letters
TextGiven(e) == e # << >> /\ e[1] # << >>

\* the B, G, R channels of a pixel, as cv2.imread delivers them
Channels(c) == IF c = "red" THEN <<0, 0, 255>> ELSE <<0, 0, 0>>

Abs(n) == IF n < 0 THEN 0 - n ELSE n

\* cv2.absdiff on one pixel (local.py 63)
AbsDiff(p, q) == [k \in 1..3 |-> Abs(p[k] - q[k])]

\* cv2.cvtColor(diff, cv2.COLOR_BGR2GRAY) on one pixel (local.py 64)
Gray(p) == (114 * p[1] + 587 * p[2] + 299 * p[3] + 500) \div 1000

\* cv2.resize(img2, (width, height)) (local.py 60) on a row of pixels, each
\* target pixel taken from the source pixel it falls on
Resize(img, n) == [k \in 1..n |-> img[((k - 1) * Len(img)) \div n + 1]]

\* the pixel lies in one of the two red bands of the HSV mask (local.py 149-156)
IsRed(c) == c = "red"

\* thresholds of pixel_difference in percent; the default is 0.01 (local.py 40)
DefaultThreshold == 1

Thresholds == {0, DefaultThreshold, 50, 100}

ValidationResult(passed, confidence, method) ==
  [passed |-> passed, confidence |-> confidence, method |-> method]

\* a variant of pixel_difference that also fails a change ratio equal to the
\* threshold
pixel_difference_AtMost(before, after, threshold) ==
  IF before = Unreadable \/ after = Unreadable
    THEN ValidationResult(FALSE, 0, "pixel_diff")
    ELSE LET img2 == IF Len(before) # Len(after) THEN Resize(after, Len(before)) ELSE after
             non_zero == Cardinality({k \in 1..Len(before) :
                           Gray(AbsDiff(Channels(before[k]), Channels(img2[k]))) # 0})
             total_pixels == Len(before)
         IN IF non_zero * 100 <= threshold * total_pixels
              THEN ValidationResult(FALSE, 90, "pixel_diff")
              ELSE ValidationResult(TRUE, 80, "pixel_diff")

\* LocalValidator.pixel_difference (local.py 36-86) on the contents of the two
\* files; change_ratio < threshold is compared in whole percent
pixel_difference(before, after, threshold) ==
  IF before = Unreadable \/ after = Unreadable
    THEN ValidationResult(FALSE, 0, "pixel_diff")
    ELSE LET img2 == IF Len(before) # Len(after) THEN Resize(after, Len(before)) ELSE after
             non_zero == Cardinality({k \in 1..Len(before) :
                           Gray(AbsDiff(Channels(before[k]), Channels(img2[k]))) # 0})
             total_pixels == Len(before)
         IN IF non_zero * 100 < threshold * total_pixels
              THEN ValidationResult(FALSE, 90, "pixel_diff")
              ELSE ValidationResult(TRUE, 80, "pixel_diff")

\* a variant of check_text_exists that fails the check when OCR is missing
check_text_exists_Strict(available, ocr_text, expected_text, case_sensitive) ==
  IF ~available THEN ValidationResult(FALSE, 0, "ocr")
  ELSE LET text == IF case_sensitive THEN ocr_text ELSE Lower(ocr_text)
           expected == IF case_sensitive THEN expected_text ELSE Lower(expected_text)
       IN IF Contains(expected, text) THEN ValidationResult(TRUE, 85, "ocr")
                                      ELSE ValidationResult(FALSE, 85, "ocr")

\* LocalValidator.check_text_exists (local.py 88-127), given the text
\* pytesseract reads from the screenshot
check_text_exists(available, ocr_text, expected_text, case_sensitive) ==
  IF ~available THEN ValidationResult(TRUE, 0, "ocr")
  ELSE LET text == IF case_sensitive THEN ocr_text ELSE Lower(ocr_text)
           expected == IF case_sensitive THEN expected_text ELSE Lower(expected_text)
       IN IF Contains(expected, text) THEN ValidationResult(TRUE, 85, "ocr")
                                      ELSE ValidationResult(FALSE, 85, "ocr")

\* red_ratio > 0.05 (local.py 159-164)
MuchRed(img) == Cardinality({k \in 1..Len(img) : IsRed(img[k])}) * 100 > 5 * Len(img)

\* a variant of detect_error_indicators that takes much red for an error when
\* there is no OCR engine to read the text
detect_error_indicators_RedFails(img, available, ocr_text) ==
  IF img = Unreadable THEN ValidationResult(TRUE, 0, "error_detection")
  ELSE IF MuchRed(img)
    THEN IF ~available \/ \E word \in ErrorWords : Contains(word, Lower(ocr_text))
           THEN ValidationResult(FALSE, 90, "error_detection")
           ELSE ValidationResult(TRUE, 50, "error_detection")
    ELSE ValidationResult(TRUE, 80, "error_detection")

\* LocalValidator.detect_error_indicators (local.py 129-192), given the text
\* pytesseract reads from the screenshot
detect_error_indicators(img, available, ocr_text) ==
  IF img = Unreadable THEN ValidationResult(TRUE, 0, "error_detection")
  ELSE IF MuchRed(img)
    THEN IF available /\ \E word \in ErrorWords : Contains(word, Lower(ocr_text))
           THEN ValidationResult(FALSE, 90, "error_detection")
           ELSE ValidationResult(TRUE, 50, "error_detection")
    ELSE ValidationResult(TRUE, 80, "error_detection")

RECURSIVE SumConfidence(_)
SumConfidence(results) ==
  IF results = << >> THEN 0
  ELSE results[1].confidence + SumConfidence(Tail(results))

RECURSIVE LowestConfidence(_)
LowestConfidence(results) ==
  IF Len(results) = 1 THEN results[1].confidence
  ELSE LET rest == LowestConfidence(Tail(results))
       IN IF results[1].confidence < rest THEN results[1].confidence ELSE rest

\* a variant of Combined that takes the lowest confidence of the checks
Combined_Lowest(results) ==
  ValidationResult(TRUE,
                   IF results # << >> THEN LowestConfidence(results) ELSE 50,
                   "local_combined")

\* the check gave a judgement, not a skip at confidence 0
Judged(r) == r.confidence # 0

\* a variant of Combined that takes the mean over the checks that judged
Combined_JudgedOnly(results) ==
  LET judged == SelectSeq(results, Judged) IN
    ValidationResult(TRUE,
                     IF judged # << >> THEN SumConfidence(judged) \div Len(judged) ELSE 50,
                     "local_combined")

\* the verdict when every check passed (local.py 226-234); the mean is kept
\* in whole percent, rounded down
Combined(results) ==
  ValidationResult(TRUE,
                   IF results # << >> THEN SumConfidence(results) \div Len(results) ELSE 50,
                   "local_combined")

\* validate_step is called (local.py 194-204) on a validator whose
\* constructor has probed for the OCR engine (local.py 24-34)
LocalValidateStepCall ==
  /\ lv_pc = "idle"
  /\ fn_call.fn = "none"
  /\ \E before \in {<< >>, <<1>>}, after \in Images, expected \in {<< >>} \cup {<<t>> : t \in Texts},
        available \in BOOLEAN :
       /\ lv_before' = before
       /\ lv_after' = after
       /\ lv_expected' = expected
       /\ tesseract' = available
  /\ lv_pc' = "pixel"
  /\ UNCHANGED <<lv_rest, lv_ocr, lv_results, lv_ret, lv_checks, lv_raised, fn_call>>

\* a variant of LvPixel that goes on to the next check after a failed
\* pixel difference
LvPixel_GoOn ==
  /\ lv_pc = "pixel"
  /\ lv_before # << >>
  /\ \E img1 \in Images :
       LET pixel_result == pixel_difference(img1, lv_after, DefaultThreshold) IN
         /\ lv_results' = Append(lv_results, pixel_result)
         /\ lv_checks' = Append(lv_checks, "pixel_difference")
         /\ lv_pc' = "error"
         /\ lv_ret' = lv_ret
  /\ UNCHANGED <<lv_rest, lv_before, lv_after, lv_expected, tesseract, lv_ocr, lv_raised,
                 fn_call>>

\* 1. pixel difference, if there is a before (local.py 206-211); the content
\* of the file before is read here
LvPixel ==
  /\ lv_pc = "pixel"
  /\ lv_before # << >>
  /\ \E img1 \in Images :
       LET pixel_result == pixel_difference(img1, lv_after, DefaultThreshold) IN
         /\ lv_results' = Append(lv_results, pixel_result)
         /\ lv_checks' = Append(lv_checks, "pixel_difference")
         /\ IF ~pixel_result.passed
              THEN /\ lv_ret' = <<pixel_result>>
                   /\ lv_pc' = "returned"
              ELSE /\ lv_ret' = lv_ret
                   /\ lv_pc' = "error"
  /\ UNCHANGED <<lv_rest, lv_before, lv_after, lv_expected, tesseract, lv_ocr, lv_raised,
                 fn_call>>

\* there is no before: the pixel difference is skipped (local.py 207)
LvNoBefore ==
  /\ lv_pc = "pixel"
  /\ lv_before = << >>
  /\ lv_pc' = "error"
  /\ UNCHANGED <<lv_rest, lv_before, lv_after, lv_expected, tesseract, lv_ocr, lv_results,
                 lv_ret, lv_checks, lv_raised, fn_call>>

\* 2. error detection (local.py 213-217); OCR runs only on a readable capture
\* with much red in it and an OCR engine
LvError ==
  /\ lv_pc = "error"
  /\ \E read \in Texts :
       LET ocr_runs == lv_after # Unreadable /\ MuchRed(lv_after) /\ tesseract
           error_result == detect_error_indicators(lv_after, tesseract, read)
       IN /\ lv_ocr' = IF ocr_runs THEN <<read>> ELSE lv_ocr
          /\ lv_results' = Append(lv_results, error_result)
          /\ IF ~error_result.passed
               THEN /\ lv_ret' = <<error_result>>
                    /\ lv_pc' = "returned"
               ELSE /\ lv_ret' = lv_ret
                    /\ lv_pc' = "text"
  /\ lv_checks' = Append(lv_checks, "detect_error_indicators")
  /\ UNCHANGED <<lv_rest, lv_before, lv_after, lv_expected, tesseract, lv_raised, fn_call>>

\* 3. text check, if a text is expected (local.py 219-224). With an OCR engine
\* Image.open raises on an unreadable capture (local.py 105), and the OCR of a
\* capture already read returns the same text.
LvText ==
  /\ lv_pc = "text"
  /\ TextGiven(lv_expected)
  /\ lv_checks' = Append(lv_checks, "check_text_exists")
  /\ IF tesseract /\ lv_after = Unreadable
       THEN /\ lv_pc' = "raised"
            /\ lv_raised' = TRUE
            /\ UNCHANGED <<lv_ocr, lv_results, lv_ret>>
       ELSE \E read \in (IF lv_ocr # << >> THEN {lv_ocr[1]} ELSE Texts) :
              LET text_result == check_text_exists(tesseract, read, lv_expected[1], FALSE) IN
                /\ lv_ocr' = IF tesseract THEN <<read>> ELSE lv_ocr
                /\ lv_results' = Append(lv_results, text_result)
                /\ lv_raised' = lv_raised
                /\ IF ~text_result.passed
                     THEN /\ lv_ret' = <<text_result>>
                          /\ lv_pc' = "returned"
                     ELSE /\ lv_ret' = lv_ret
                          /\ lv_pc' = "combine"
  /\ UNCHANGED <<lv_rest, lv_before, lv_after, lv_expected, tesseract, fn_call>>

\* no text is expected: the text check is skipped (local.py 220)
LvNoText ==
  /\ lv_pc = "text"
  /\ ~TextGiven(lv_expected)
  /\ lv_pc' = "combine"
  /\ UNCHANGED <<lv_rest, lv_before, lv_after, lv_expected, tesseract, lv_ocr, lv_results,
                 lv_ret, lv_checks, lv_raised, fn_call>>

\* every check run has passed (local.py 226-234)
LvCombine ==
  /\ lv_pc = "combine"
  /\ lv_ret' = <<Combined(lv_results)>>
  /\ lv_pc' = "returned"
  /\ UNCHANGED <<lv_rest, lv_before, lv_after, lv_expected, tesseract, lv_ocr, lv_results,
                 lv_checks, lv_raised, fn_call>>

\* pixel_difference called on its own, with any threshold (local.py 36-41)
PixelDifferenceCall ==
  /\ lv_pc = "idle"
  /\ fn_call.fn = "none"
  /\ \E before \in Images, after \in Images, threshold \in Thresholds :
       fn_call' = [fn |-> "pixel_difference", before |-> before, after |-> after,
                   threshold |-> threshold,
                   ret |-> pixel_difference(before, after, threshold)]
  /\ UNCHANGED <<lv_rest, lv_pc, lv_before, lv_after, lv_expected, tesseract, lv_ocr,
                 lv_results, lv_ret, lv_checks, lv_raised>>

\* check_text_exists called on its own (local.py 88-93) on a readable
\* screenshot
CheckTextExistsCall ==
  /\ lv_pc = "idle"
  /\ fn_call.fn = "none"
  /\ \E available \in BOOLEAN, read \in Texts, expected \in Texts, case_sensitive \in BOOLEAN :
       fn_call' = [fn |-> "check_text_exists", available |-> available, text |-> read,
                   expected_text |-> expected, case_sensitive |-> case_sensitive,
                   ret |-> check_text_exists(available, read, expected, case_sensitive)]
  /\ UNCHANGED <<lv_rest, lv_pc, lv_before, lv_after, lv_expected, tesseract, lv_ocr,
                 lv_results, lv_ret, lv_checks, lv_raised>>

\* detect_error_indicators called on its own (local.py 129), as the video
\* analyzer calls it on a frame (analyzer.py 141)
DetectErrorIndicatorsCall ==
  /\ lv_pc = "idle"
  /\ fn_call.fn = "none"
  /\ \E img \in Images, available \in BOOLEAN, read \in Texts :
       fn_call' = [fn |-> "detect_error_indicators", screenshot |-> img,
                   available |-> available, text |-> read,
                   ret |-> detect_error_indicators(img, available, read)]
  /\ UNCHANGED <<lv_rest, lv_pc, lv_before, lv_after, lv_expected, tesseract, lv_ocr,
                 lv_results, lv_ret, lv_checks, lv_raised>>

LvInit ==
  /\ lv_pc = "idle"
  /\ lv_before = << >>
  /\ lv_after = Unreadable
  /\ lv_expected = << >>
  /\ tesseract = FALSE
  /\ lv_ocr = << >>
  /\ lv_results = << >>
  /\ lv_ret = << >>
  /\ lv_checks = << >>
  /\ lv_raised = FALSE
  /\ fn_call = [fn |-> "none"]

LvNext ==
  \/ LocalValidateStepCall
  \/ LvPixel
  \/ LvNoBefore
  \/ LvError
  \/ LvText
  \/ LvNoText
  \/ LvCombine
  \/ PixelDifferenceCall
  \/ CheckTextExistsCall
  \/ DetectErrorIndicatorsCall

\* ---------------------------------------------------------- AIValidator

Providers == {"anthropic", "openai"}

\* the words of a provider's answer; a line is a row of at most two words, an
\* answer a row of lines
Words == {"RESULT:", "SUCCESS", "CONFIDENCE:", "85", "150", "EXPLANATION:", "ok"}

Lines == UNION {[1..n -> Words] : n \in 0..2}

\* the words of an answer in the language of the prompt (ai.py 63-80), with
\* the letters outside Latin-1 written in ASCII: "SONUC:", "BASARILI" and
\* "BASARISIZ" are the upper-case labels the prompt asks for, and
\* "Basar(i)l(i)" is the positive label in mixed case, (i) being the dotless i
PromptWords == {"SONUC:", "BASARILI", "BASARISIZ", "Basar(i)l(i)"}

PromptLines == UNION {[1..n -> PromptWords] : n \in 0..2}

\* an answer is written in English or in the language of the prompt
Contents ==
  UNION {[1..n -> Lines] : n \in 0..MaxLines}
    \cup UNION {[1..n -> PromptLines] : n \in 0..MaxLines}

\* str.lower() on a word (ai.py 213): a capital I becomes the dotted i, a
\* dotless i stays dotless
WordLower(w) ==
  CASE w = "RESULT:" -> "result:"
    [] w = "SUCCESS" -> "success"
    [] w = "CONFIDENCE:" -> "confidence:"
    [] w = "EXPLANATION:" -> "explanation:"
    [] w = "SONUC:" -> "sonuc:"
    [] w = "BASARILI" -> "basarili"
    [] w = "BASARISIZ" -> "basarisiz"
    [] w = "Basar(i)l(i)" -> "basar(i)l(i)"
    [] OTHER -> w

LineLower(line) == [k \in DOMAIN line |-> WordLower(line[k])]

\* sub in line, for a sub that is one of the model's words
LineHas(line, sub) == \E k \in DOMAIN line : line[k] = sub

\* int(n) for the digit words
IntOf(w) == IF w = "85" THEN 85 ELSE 150

\* re.findall(r'\d+', line) (ai.py 220)
RECURSIVE Numbers(_)
Numbers(line) ==
  IF line = << >> THEN << >>
  ELSE (IF line[1] \in {"85", "150"} THEN <<line[1]>> ELSE << >>) \o Numbers(Tail(line))

\* line.split(":", 1)[-1].strip() (ai.py 226): what follows the first word
\* that ends in a colon
RECURSIVE AfterColon(_)
AfterColon(line) ==
  IF line = << >> THEN << >>
  ELSE IF line[1] \in {"RESULT:", "CONFIDENCE:", "EXPLANATION:", "SONUC:"} THEN Tail(line)
  ELSE AfterColon(Tail(line))

\* a variant of ParseLine that takes a line without a success word for a
\* failure whether or not it carries the result label
ParseLine_FailClosed(acc, line) ==
  LET line_lower == LineLower(line) IN
    IF LineHas(line_lower, "confidence:")
      THEN IF Numbers(line) # << >>
             THEN [acc EXCEPT !.confidence = IntOf(Numbers(line)[1])]
             ELSE acc
    ELSE IF LineHas(line_lower, "explanation:")
      THEN [acc EXCEPT !.reason = <<AfterColon(line)>>]
    ELSE [acc EXCEPT !.passed = \/ LineHas(line_lower, "basar(i)l(i)")
                              \/ LineHas(line_lower, "success")]

\* one turn of the loop over the lines (ai.py 212-226); the confidence is
\* int(numbers[0]) / 100, kept in percent
ParseLine(acc, line) ==
  LET line_lower == LineLower(line) IN
    IF LineHas(line_lower, "sonuc:") \/ LineHas(line_lower, "result:")
      THEN [acc EXCEPT !.passed = \/ LineHas(line_lower, "basar(i)l(i)")
                                  \/ LineHas(line_lower, "success")]
    ELSE IF LineHas(line_lower, "confidence:")
      THEN IF Numbers(line) # << >>
             THEN [acc EXCEPT !.confidence = IntOf(Numbers(line)[1])]
             ELSE acc
    ELSE IF LineHas(line_lower, "explanation:")
      THEN [acc EXCEPT !.reason = <<AfterColon(line)>>]
    ELSE acc

RECURSIVE ParseLines(_, _)
ParseLines(acc, lines) ==
  IF lines = << >> THEN acc
  ELSE ParseLines(ParseLine(acc, lines[1]), Tail(lines))

\* AIValidator._parse_ai_response (ai.py 204-234)
parse_ai_response(content) ==
  ParseLines([passed |-> TRUE, confidence |-> 50, reason |-> content,
              method |-> "ai_vision"], content)

\* what the provider call produces: no answer in time, an answer whose status
\* is not 2xx, a 2xx answer whose body is not JSON, a JSON body without the
\* expected fields, or a JSON body holding a text (ai.py 84-120, 161-193)
ProviderReplies ==
  {[kind |-> k, content |-> << >>] : k \in {"timeout", "status", "not_json", "no_text"}}
    \cup {[kind |-> "text", content |-> c] : c \in Contents}

\* validate is called (ai.py 236-245) on a validator whose constructor took
\* the API key from the environment (ai.py 19-32)
AIValidateCall ==
  /\ av_pc = "idle"
  /\ \E provider \in Providers, api_key \in BOOLEAN :
       /\ av_provider' = provider
       /\ av_api_key' = api_key
  /\ av_pc' = "key"
  /\ UNCHANGED <<av_rest, av_reply, av_ret, av_raised>>

\* if not self.api_key (ai.py 53-59, 138-144)
AvNoKey ==
  /\ av_pc = "key"
  /\ ~av_api_key
  /\ av_ret' = <<[passed |-> TRUE, confidence |-> 0, reason |-> <<"no api key">>,
                  method |-> "ai_skipped"]>>
  /\ av_pc' = "returned"
  /\ UNCHANGED <<av_rest, av_provider, av_api_key, av_reply, av_raised>>

\* image_data = self._encode_image(screenshot) (ai.py 61, 146): outside the
\* try, so what open() raises leaves validate
AvEncode ==
  /\ av_pc = "key"
  /\ av_api_key
  /\ \E readable \in BOOLEAN :
       IF readable THEN /\ av_pc' = "post"
                        /\ av_raised' = av_raised
                   ELSE /\ av_pc' = "raised"
                        /\ av_raised' = "encode"
  /\ UNCHANGED <<av_rest, av_provider, av_api_key, av_reply, av_ret>>

\* a variant of AvPost that turns every failure of the provider call into a
\* failed verdict
AvPost_FailStep ==
  /\ av_pc = "post"
  /\ \E reply \in ProviderReplies :
       /\ av_reply' = <<reply>>
       /\ IF reply.kind = "text"
            THEN /\ av_pc' = "parse"
                 /\ UNCHANGED <<av_ret, av_raised>>
            ELSE /\ av_ret' = <<[passed |-> FALSE, confidence |-> 0,
                                 reason |-> <<reply.kind>>, method |-> "ai_error"]>>
                 /\ av_pc' = "returned"
                 /\ av_raised' = av_raised
  /\ UNCHANGED <<av_rest, av_provider, av_api_key>>

\* the provider call inside try ... except httpx.HTTPError (ai.py 82-129,
\* 159-202): a timeout and a status that is not 2xx are httpx.HTTPError;
\* what response.json() and the indexing of its result raise are not
AvPost ==
  /\ av_pc = "post"
  /\ \E reply \in ProviderReplies :
       /\ av_reply' = <<reply>>
       /\ CASE reply.kind \in {"timeout", "status"} ->
                 /\ av_ret' = <<[passed |-> TRUE, confidence |-> 0,
                                 reason |-> <<reply.kind>>, method |-> "ai_error"]>>
                 /\ av_pc' = "returned"
                 /\ av_raised' = av_raised
            [] reply.kind \in {"not_json", "no_text"} ->
                 /\ av_pc' = "raised"
                 /\ av_raised' = "decode"
                 /\ av_ret' = av_ret
            [] OTHER ->
                 /\ av_pc' = "parse"
                 /\ UNCHANGED <<av_ret, av_raised>>
  /\ UNCHANGED <<av_rest, av_provider, av_api_key>>

\* return self._parse_ai_response(content) (ai.py 121, 194)
AvParse ==
  /\ av_pc = "parse"
  /\ av_ret' = <<parse_ai_response(av_reply[1].content)>>
  /\ av_pc' = "returned"
  /\ UNCHANGED <<av_rest, av_provider, av_api_key, av_reply, av_raised>>

AvInit ==
  /\ av_pc = "idle"
  /\ av_provider = "anthropic"
  /\ av_api_key = FALSE
  /\ av_reply = << >>
  /\ av_ret = << >>
  /\ av_raised = "none"

AvNext ==
  \/ AIValidateCall
  \/ AvNoKey
  \/ AvEncode
  \/ AvPost
  \/ AvParse

\* -------------------------------------------------------- VideoAnalyzer
\* A frame is a row of ImgPixels pixels (ffmpeg writes every frame of a video
\* at one size); "dim" is a colour of luminance 3.
FrameColours == Colours \cup {"dim"}

FrameImages == [1..ImgPixels -> FrameColours]

\* the BGR channels of a frame's pixel
FrameChannels(c) == IF c = "dim" THEN <<3, 3, 3>> ELSE Channels(c)

\* the texts pytesseract may read from a frame
FrameTexts == {<< >>, <<"e">>}

RECURSIVE GraySum(_)
\* gray.sum() for cv2.cvtColor(frame, cv2.COLOR_BGR2GRAY) (analyzer.py 112)
GraySum(img) ==
  IF img = << >> THEN 0 ELSE Gray(FrameChannels(Head(img))) + GraySum(Tail(img))

\* mean_brightness < 10 (analyzer.py 113-115)
DarkBelow == 10

IsDark(img) == GraySum(img) < DarkBelow * Len(img)

\* the default threshold of detect_anomalies, 0.3, in percent (analyzer.py 91)
ChangeThreshold == 30

\* a pixel of diff_gray counts as changed above this value (analyzer.py 128)
DiffAbove == 30

\* change_ratio > threshold (analyzer.py 126-130)
SuddenChange(frame, prev) ==
  Cardinality({k \in 1..Len(frame) :
     Gray(AbsDiff(FrameChannels(frame[k]), FrameChannels(prev[k]))) > DiffAbove}) * 100
    > ChangeThreshold * Len(frame)

Anomaly(type, frame_index, severity) ==
  [type |-> type, frame_index |-> frame_index, severity |-> severity]

\* a variant of FrameIndex that numbers only the frames that could be read
FrameIndex_ReadableOnly(index, seen) ==
  Cardinality({k \in DOMAIN seen : seen[k].readable})

\* the index enumerate(frames) gives a frame (analyzer.py 105)
FrameIndex(index, seen) == index

\* the anomalies one readable frame adds (analyzer.py 111-149), in order
FrameAnomalies(frame, prev, index, available, ocr_text) ==
  (IF IsDark(frame) THEN <<Anomaly("black_screen", index, "high")>> ELSE << >>)
  \o (IF prev # << >> /\ SuddenChange(frame, prev[1])
        THEN <<Anomaly("sudden_change", index, "medium")>> ELSE << >>)
  \o (IF ~detect_error_indicators(frame, available, ocr_text).passed
        THEN <<Anomaly("error_indicator", index, "high")>> ELSE << >>)

\* the high-severity entries of an anomaly list
HighSeverity(anomalies) == SelectSeq(anomalies, LAMBDA a : a.severity = "high")

\* analyze_video is called on a video (analyzer.py 155-160)
AnalyzeVideoCall ==
  /\ va_pc = "idle"
  /\ va_pc' = "extract"
  /\ \E available \in BOOLEAN : va_tesseract' = available
  /\ UNCHANGED <<va_rest, va_frames, va_i, va_prev, va_anomalies, va_seen, va_insights,
                 va_ret, va_raised>>

\* extract_frames (analyzer.py 51-86, 173): ffmpeg exits non-zero and
\* subprocess.run(check=True) raises, or it leaves some frame files, maybe none
ExtractFrames ==
  /\ va_pc = "extract"
  /\ \E fails \in BOOLEAN, n \in 0..MaxFrames :
       IF fails
         THEN /\ va_pc' = "raised"
              /\ va_raised' = "CalledProcessError"
              /\ UNCHANGED va_frames
         ELSE /\ va_pc' = "extracted"
              /\ va_frames' = n
              /\ UNCHANGED va_raised
  /\ UNCHANGED <<va_rest, va_tesseract, va_i, va_prev, va_anomalies, va_seen, va_insights,
                 va_ret>>

\* if not frames: return (analyzer.py 175-179)
NoFrames ==
  /\ va_pc = "extracted"
  /\ va_frames = 0
  /\ va_ret' = <<[success |-> FALSE, error |-> "no_frames"]>>
  /\ va_pc' = "returned"
  /\ UNCHANGED <<va_rest, va_tesseract, va_frames, va_i, va_prev, va_anomalies, va_seen,
                 va_insights, va_raised>>

\* detect_anomalies is entered (analyzer.py 102-103, 182)
DetectAnomaliesCall ==
  /\ va_pc = "extracted"
  /\ va_frames > 0
  /\ va_anomalies' = << >>
  /\ va_prev' = << >>
  /\ va_i' = 0
  /\ va_pc' = "detect"
  /\ UNCHANGED <<va_rest, va_tesseract, va_frames, va_seen, va_insights, va_ret, va_raised>>

\* cv2.imread gives None: continue (analyzer.py 106-109)
DetectSkip ==
  /\ va_pc = "detect"
  /\ va_i < va_frames
  /\ va_seen' = Append(va_seen, [readable |-> FALSE, dark |-> FALSE])
  /\ va_i' = va_i + 1
  /\ UNCHANGED <<va_rest, va_pc, va_tesseract, va_frames, va_prev, va_anomalies,
                 va_insights, va_ret, va_raised>>

\* one iteration over a frame that could be read (analyzer.py 106-151)
DetectFrame ==
  /\ va_pc = "detect"
  /\ va_i < va_frames
  /\ \E frame \in FrameImages, ocr_text \in FrameTexts :
       /\ va_anomalies' = va_anomalies
            \o FrameAnomalies(frame, va_prev, FrameIndex(va_i, va_seen), va_tesseract, ocr_text)
       /\ va_seen' = Append(va_seen, [readable |-> TRUE,
                                      dark |-> GraySum(frame) < DarkBelow * Len(frame)])
       /\ va_prev' = <<frame>>
  /\ va_i' = va_i + 1
  /\ UNCHANGED <<va_rest, va_pc, va_tesseract, va_frames, va_insights, va_ret, va_raised>>

\* the loop is over: return anomalies (analyzer.py 153)
DetectDone ==
  /\ va_pc = "detect"
  /\ va_i = va_frames
  /\ va_pc' = "ai"
  /\ UNCHANGED <<va_rest, va_tesseract, va_frames, va_i, va_prev, va_anomalies, va_seen,
                 va_insights, va_ret, va_raised>>

\* use_ai and self.ai_validator and expectations (analyzer.py 186)
UsesAI(use_ai, ai_validator, expectations) ==
  use_ai /\ ai_validator /\ expectations # << >>

\* no AI pass is asked for or possible (analyzer.py 185-186)
VaSkipAI ==
  /\ va_pc = "ai"
  /\ \E use_ai \in BOOLEAN, ai_validator \in BOOLEAN, expectations \in {<< >>, <<1>>} :
       ~UsesAI(use_ai, ai_validator, expectations)
  /\ va_pc' = "result"
  /\ UNCHANGED <<va_rest, va_tesseract, va_frames, va_i, va_prev, va_anomalies, va_seen,
                 va_insights, va_ret, va_raised>>

\* the AI validator looks at the last frame (analyzer.py 186-198); what leaves
\* its validate leaves analyze_video
VaAI ==
  /\ va_pc = "ai"
  /\ \E use_ai \in BOOLEAN, ai_validator \in BOOLEAN, expectations \in {<< >>, <<1>>} :
       UsesAI(use_ai, ai_validator, expectations)
  /\ \E a \in AIResults, raises \in BOOLEAN :
       IF raises
         THEN /\ va_pc' = "raised"
              /\ va_raised' = "Exception"
              /\ UNCHANGED va_insights
         ELSE /\ va_pc' = "result"
              /\ va_insights' = Append(va_insights, a)
              /\ UNCHANGED va_raised
  /\ UNCHANGED <<va_rest, va_tesseract, va_frames, va_i, va_prev, va_anomalies, va_seen,
                 va_ret>>

\* the result of a scan (analyzer.py 200-212)
AnalysisResult(frames, anomalies, insights) ==
  [success |-> HighSeverity(anomalies) = << >>,
   total_frames |-> frames,
   anomalies |-> anomalies,
   anomaly_count |-> Len(anomalies),
   critical_anomalies |-> Len(HighSeverity(anomalies)),
   ai_insights |-> insights]

VaResult ==
  /\ va_pc = "result"
  /\ va_ret' = <<AnalysisResult(va_frames, va_anomalies, va_insights)>>
  /\ va_pc' = "returned"
  /\ UNCHANGED <<va_rest, va_tesseract, va_frames, va_i, va_prev, va_anomalies, va_seen,
                 va_insights, va_raised>>

VaInit ==
  /\ va_pc = "idle"
  /\ va_tesseract = FALSE
  /\ va_frames = 0
  /\ va_i = 0
  /\ va_prev = << >>
  /\ va_anomalies = << >>
  /\ va_seen = << >>
  /\ va_insights = << >>
  /\ va_ret = << >>
  /\ va_raised = "none"

VaNext ==
  \/ AnalyzeVideoCall
  \/ ExtractFrames
  \/ NoFrames
  \/ DetectAnomaliesCall
  \/ DetectSkip
  \/ DetectFrame
  \/ DetectDone
  \/ VaSkipAI
  \/ VaAI
  \/ VaResult

\* ------------------------------------------------------ dashboard suite run

SuiteId == "suite"

suite_rest == <<heal_rest, run_vars, orch_vars, valid_vars, va_vars>>

\* what TESTS_DIR holds for a test id: no file, a file that is not JSON, or a
\* saved test
TestFiles == {"missing", "corrupt", "saved"}

TestIdLists == UNION {[1..n -> TestFiles] : n \in 1..MaxSuite}

\* run_id = f"{suite_id}_{test_id}" (app.py 837): a key no handler writes, the
\* handlers' keys being the first eight characters of a uuid
MemberId(n) ==
  CASE n = 1 -> "suite_1"
    [] n = 2 -> "suite_2"
    [] n = 3 -> "suite_3"
    [] OTHER -> "suite_4"

\* the registry entry handle_run_suite creates (app.py 306-314)
NewSuiteEntry == [status |-> "running", results |-> << >>, finished |-> FALSE]

\* handle_run_suite: a request without test ids is refused (app.py 293-295)
HandleRunSuiteReject ==
  /\ suite_handler_pc = "idle"
  /\ suite_handler_pc' = "refused"
  /\ UNCHANGED <<suite_rest, test_runs, suite_pc, suite_tests, suite_i, suite_results,
                 suite_out, suite_raised>>

\* handle_run_suite: the worker thread is started (app.py 297-304); the
\* registry entry is written afterwards
HandleRunSuite ==
  /\ suite_handler_pc = "idle"
  /\ \E test_ids \in TestIdLists : suite_tests' = test_ids
  /\ suite_handler_pc' = "started"
  /\ suite_pc' = "loop"
  /\ UNCHANGED <<suite_rest, test_runs, suite_i, suite_results, suite_out, suite_raised>>

\* handle_run_suite: test_runs[suite_id] = {...} and the reply (app.py 306-316)
HandleRunSuiteRegister ==
  /\ suite_handler_pc = "started"
  /\ test_runs' = (SuiteId :> NewSuiteEntry) @@ test_runs
  /\ suite_handler_pc' = "replied"
  /\ UNCHANGED <<suite_rest, suite_pc, suite_tests, suite_i, suite_results, suite_out,
                 suite_raised>>

\* the test file is not there: not_found is recorded and the loop goes on
\* (app.py 829-832)
SuiteNotFound ==
  /\ suite_pc = "loop"
  /\ suite_i <= Len(suite_tests)
  /\ suite_tests[suite_i] = "missing"
  /\ suite_results' = Append(suite_results, "not_found")
  /\ suite_i' = suite_i + 1
  /\ UNCHANGED <<suite_rest, test_runs, suite_handler_pc, suite_pc, suite_tests, suite_out,
                 suite_raised>>

\* test_data = json.loads(test_file.read_text()) (app.py 834), outside any
\* try: what it raises ends the thread
SuiteLoad ==
  /\ suite_pc = "loop"
  /\ suite_i <= Len(suite_tests)
  /\ suite_tests[suite_i] # "missing"
  /\ IF suite_tests[suite_i] = "corrupt"
       THEN /\ suite_pc' = "died"
            /\ suite_raised' = "decode"
       ELSE /\ suite_pc' = "member"
            /\ suite_raised' = suite_raised
  /\ UNCHANGED <<suite_rest, test_runs, suite_handler_pc, suite_tests, suite_i, suite_results,
                 suite_out>>

\* status of a member whose body ran to its update (app.py 578)
MemberStatus(out) == IF out = "zero" THEN "passed" ELSE "failed"

\* run_test_background(run_id, ...), called in the suite's thread (app.py
\* 838-844): its body up to the status update (app.py 405-584). The setup and
\* the runner invocation can raise; the update raises KeyError when the
\* registry has no entry under run_id. After a return, the wait loop ends at
\* once, the member's status is recorded and the results are written into the
\* suite's entry (app.py 846-857).
SuiteRunMember ==
  /\ suite_pc = "member"
  /\ \E out \in {"setup"} \cup RunnerOutcomes :
       /\ suite_out' = out
       /\ IF out \in {"zero", "nonzero"} /\ MemberId(suite_i) \in DOMAIN test_runs
            THEN LET updated == [test_runs EXCEPT ![MemberId(suite_i)].status = MemberStatus(out)]
                 IN /\ suite_results' = Append(suite_results, MemberStatus(out))
                    /\ IF SuiteId \in DOMAIN test_runs
                         THEN /\ test_runs' = [updated EXCEPT ![SuiteId].results = suite_results']
                              /\ suite_pc' = "loop"
                              /\ suite_i' = suite_i + 1
                              /\ suite_raised' = suite_raised
                         ELSE /\ test_runs' = updated
                              /\ suite_pc' = "died"
                              /\ suite_i' = suite_i
                              /\ suite_raised' = "keyerror"
            ELSE /\ suite_pc' = "member_except"
                 /\ UNCHANGED <<test_runs, suite_i, suite_results, suite_raised>>
  /\ UNCHANGED <<suite_rest, suite_handler_pc, suite_tests>>

\* the except handler of run_test_background (app.py 593-614): its update
\* raises KeyError out of the handler, and so out of run_suite_background,
\* when the registry has no entry under run_id
SuiteMemberExcept ==
  /\ suite_pc = "member_except"
  /\ IF MemberId(suite_i) \in DOMAIN test_runs
       THEN LET updated == [test_runs EXCEPT ![MemberId(suite_i)].status = "error"]
            IN /\ suite_results' = Append(suite_results, "error")
               /\ IF SuiteId \in DOMAIN test_runs
                    THEN /\ test_runs' = [updated EXCEPT ![SuiteId].results = suite_results']
                         /\ suite_pc' = "loop"
                         /\ suite_i' = suite_i + 1
                         /\ suite_raised' = suite_raised
                    ELSE /\ test_runs' = updated
                         /\ suite_pc' = "died"
                         /\ suite_i' = suite_i
                         /\ suite_raised' = "keyerror"
       ELSE /\ suite_pc' = "died"
            /\ suite_raised' = "keyerror"
            /\ UNCHANGED <<test_runs, suite_i, suite_results>>
  /\ UNCHANGED <<suite_rest, suite_handler_pc, suite_tests, suite_out>>

\* all(r.get("status") == "passed" for r in results) (app.py 860)
AllPassed(results) == \A k \in DOMAIN results : results[k] = "passed"

\* the loop is over: the suite's status is written (app.py 859-865); the
\* update raises KeyError when the handler has not written the entry yet
SuiteFinish ==
  /\ suite_pc = "loop"
  /\ suite_i > Len(suite_tests)
  /\ IF SuiteId \in DOMAIN test_runs
       THEN /\ test_runs' = [test_runs EXCEPT
                               ![SuiteId].status = IF AllPassed(suite_results) THEN "passed"
                                                                               ELSE "failed",
                               ![SuiteId].finished = TRUE,
                               ![SuiteId].results = suite_results]
            /\ suite_pc' = "returned"
            /\ suite_raised' = suite_raised
       ELSE /\ test_runs' = test_runs
            /\ suite_pc' = "died"
            /\ suite_raised' = "keyerror"
  /\ UNCHANGED <<suite_rest, suite_handler_pc, suite_tests, suite_i, suite_results, suite_out>>

SuiteInit ==
  /\ suite_handler_pc = "idle"
  /\ suite_pc = "idle"
  /\ suite_tests = << >>
  /\ suite_i = 1
  /\ suite_results = << >>
  /\ suite_out = "none"
  /\ suite_raised = "none"

SuiteNext ==
  \/ HandleRunSuiteReject
  \/ HandleRunSuite
  \/ HandleRunSuiteRegister
  \/ SuiteNotFound
  \/ SuiteLoad
  \/ SuiteRunMember
  \/ SuiteMemberExcept
  \/ SuiteFinish

HealInit ==
  /\ test_runs = << >>
  /\ http_response = 0
  /\ heal_pc = "idle"
  /\ yaml_content = EmptyYaml
  /\ device_id = NoDevice
  /\ max_retries = 0
  /\ current_yaml = EmptyYaml
  /\ retry_count = 0
  /\ android_emulator_info = FALSE
  /\ yaml_file = << >>
  /\ result = "none"
  /\ raised = "none"
  /\ swallowed = FALSE
  /\ maestro_calls = << >>
  /\ fix_calls = << >>
  /\ iterations = 0

ValidInit == VsInit /\ LvInit /\ AvInit

Init == HealInit /\ RunInit /\ OrchInit /\ ValidInit /\ VaInit /\ SuiteInit

HealNext ==
  \/ HandleSelfHealReject
  \/ HandleSelfHeal
  \/ HealStart
  \/ HealLoopEnter
  \/ HealLoopExit
  \/ HealSetup
  \/ HealIosSetup
  \/ HealRunMaestro
  \/ HealRestartEmulators
  \/ HealRecord
  \/ HealPassed
  \/ HealRepair
  \/ HealExhausted
  \/ HealExcept

\* ------------------------------------------------- self-healing loop: claims
HasHeal == HealId \in DOMAIN test_runs
HealRun == test_runs[HealId]
HealTerminal == HasHeal /\ HealRun.status \in Terminal

\* C1: the number of recorded attempts never exceeds maxRetries, the status is
\* always one of running/passed/failed/error, and once the status is terminal
\* no attempt is appended and the runner is not invoked again.
C1_AttemptsBounded ==
  /\ [](HasHeal => /\ Len(HealRun.retries) <= HealRun.maxRetries
                   /\ HealRun.status \in Statuses)
  /\ [][HealTerminal => /\ HasHeal'
                        /\ HealRun'.retries = HealRun.retries
                        /\ maestro_calls' = maestro_calls]_vars

\* C2: a self-healing run started through handle_self_heal reaches a terminal
\* status: when its worker has returned, the status is passed, failed or error.
C2_ReachesTerminal == heal_pc = "returned" => HealTerminal

\* C3: a successful runner invocation is the last one; no repair call and no
\* attempt follows it, the run ends passed, and the final definition is the
\* one that invocation executed.
C3_PassStops ==
  \A k \in DOMAIN maestro_calls :
    maestro_calls[k].out = "zero" =>
      /\ k = Len(maestro_calls)
      /\ Len(fix_calls) = k - 1
      /\ Len(HealRun.retries) <= k
      /\ heal_pc \in {"restart", "record", "decide", "returned"}
      /\ HealRun.status \in {"running", "passed"}
      /\ heal_pc = "returned" =>
           /\ HealRun.status = "passed"
           /\ Len(HealRun.retries) = k
           /\ HealRun.retries[k].status = "passed"
           /\ HealRun.finalYaml = <<maestro_calls[k].yaml>>

C3_Witness ==
  /\ heal_pc = "returned"
  /\ HasHeal
  /\ HealRun.status = "passed"
  /\ Len(maestro_calls) >= 2
  /\ HealRun.finalYaml # <<yaml_content>>

\* C4: when attempt k (counted from 0) fails and k+1 < maxRetries, the repair
\* call number k is the only one made for it, it receives the definition
\* attempt k used, and attempt k+1 executes the value it returned.
C4_RepairAdopted ==
  HasHeal =>
    /\ \A j \in DOMAIN HealRun.retries :
         (HealRun.retries[j].status = "failed" /\ j < HealRun.maxRetries) =>
           /\ (j <= Len(fix_calls)) \/ (j = Len(fix_calls) + 1 /\ heal_pc = "decide")
           /\ j <= Len(fix_calls) => fix_calls[j].yaml = HealRun.retries[j].yaml
           /\ j < Len(maestro_calls) => maestro_calls[j + 1].yaml = fix_calls[j].ret
           /\ j < Len(HealRun.retries) => HealRun.retries[j + 1].yaml = fix_calls[j].ret
    /\ Len(fix_calls) =
         Cardinality({j \in DOMAIN HealRun.retries :
                        /\ HealRun.retries[j].status = "failed"
                        /\ j < HealRun.maxRetries
                        /\ ~(j = Len(HealRun.retries) /\ heal_pc = "decide")})

C4_Witness ==
  /\ HasHeal
  /\ Len(HealRun.retries) >= 2
  /\ Len(fix_calls) >= 1
  /\ fix_calls[1].ret # fix_calls[1].yaml
  /\ HealRun.retries[2].yaml = fix_calls[1].ret

\* C5: with maxRetries = M >= 1, when every runner invocation fails without
\* raising, the run ends failed after exactly M attempts and M-1 repair calls,
\* and the final definition is the one the last attempt executed.
C5_Exhausted ==
  ( /\ heal_pc = "returned"
    /\ max_retries >= 1
    /\ raised = "none"
    /\ \A k \in DOMAIN maestro_calls : maestro_calls[k].out = "nonzero" ) =>
      /\ HealRun.status = "failed"
      /\ Len(HealRun.retries) = max_retries
      /\ Len(maestro_calls) = max_retries
      /\ Len(fix_calls) = max_retries - 1
      /\ HealRun.finalYaml = <<maestro_calls[max_retries].yaml>>
      /\ HealRun.finalYaml = <<HealRun.retries[max_retries].yaml>>

C5_Witness ==
  /\ heal_pc = "returned"
  /\ HasHeal
  /\ HealRun.status = "failed"
  /\ max_retries >= 2
  /\ Len(fix_calls) = max_retries - 1

C7_OneRecordPerIteration ==
  /\ []((heal_pc = "returned" /\ HasHeal) => Len(HealRun.retries) = iterations)
  /\ [][HasHeal =>
          /\ HasHeal'
          /\ Len(HealRun'.retries) >= Len(HealRun.retries)
          /\ SubSeq(HealRun'.retries, 1, Len(HealRun.retries)) = HealRun.retries]_vars

\* C8: a runner invocation that hits its timeout counts as a failure of that
\* unit: in the self-healing loop it is recorded as a failed attempt and the
\* run does not end in error because of it, and a single dashboard run whose
\* runner timed out ends failed.
C8_TimeoutIsFailure ==
  /\ (heal_pc = "returned" /\ HasHeal) =>
       \A k \in DOMAIN maestro_calls :
         maestro_calls[k].out = "timeout" =>
           /\ k <= Len(HealRun.retries)
           /\ HealRun.retries[k].status = "failed"
           /\ HealRun.status # "error"
  /\ ( /\ run_pc = "returned"
       /\ run_out = "timeout"
       /\ RunId \in DOMAIN test_runs
       /\ test_runs[RunId].status \in Terminal ) => test_runs[RunId].status = "failed"

\* ------------------------------------------------- step orchestrator: claims

\* C9: run_test returns exactly one StepOutcome per step of the definition,
\* with indices 0..N-1 in order, whatever the runner results were; the run's
\* passed flag is false when a runner call failed, and each step carries the
\* runner result and the verdict of its own runner call and validation.
C9_AllStepsReported ==
  orch_pc = "returned" =>
    /\ Len(step_results) = test_case.steps
    /\ Len(runner_log) = test_case.steps
    /\ Len(validate_log) = test_case.steps
    /\ \A k \in DOMAIN step_results :
         /\ step_results[k].index = k - 1
         /\ step_results[k].maestro_passed = runner_log[k]
         /\ step_results[k].validation_result = validate_log[k]
    /\ (\E k \in DOMAIN runner_log : ~runner_log[k]) => ~TestResultPassed(step_results)

C9_Witness ==
  /\ orch_pc = "returned"
  /\ test_case.steps = 3
  /\ runner_log = <<TRUE, FALSE, TRUE>>
  /\ Len(step_results) = 3
  /\ TrulyPassed(step_results[1])
  /\ step_results[1].validation_result # << >>
  /\ TrulyPassed(step_results[3])
  /\ step_results[3].validation_result # << >>
  /\ ~TestResultPassed(step_results)

\* C10: when the capture after a step's execution fails, run_test still
\* returns a TestRun with a StepOutcome for every step, the failed step's
\* outcome keeping the runner result, carrying no verdict.
C10_CaptureFailureRecorded ==
  (orch_pc \in {"returned", "raised"} /\ orch_raised = "capture") =>
    /\ orch_pc = "returned"
    /\ Len(step_results) = test_case.steps
    /\ step_results[i + 1].index = i
    /\ step_results[i + 1].maestro_passed = runner_log[i + 1]
    /\ step_results[i + 1].validation_result = << >>

\* C11: the level fixes which validators _validate_step invokes. Under none
\* neither is invoked and the value returned is absent; under local only the
\* local validator is invoked, once, and its verdict is returned; under ai
\* only the AI validator is invoked, once, with the step's expectation, or
\* with the fallback phrase when the step has none, and its verdict is
\* returned.
C11_LevelFixesEngines ==
  /\ (vs_pc # "idle" /\ vs_level = "none") =>
       /\ local_calls = << >> /\ ai_calls = << >>
       /\ (vs_pc = "returned" => vs_ret = << >>)
  /\ (vs_pc # "idle" /\ vs_level = "local") =>
       /\ ai_calls = << >>
       /\ (vs_pc = "returned" =>
             /\ Len(local_calls) = 1
             /\ vs_ret = vs_local /\ vs_local # << >>)
  /\ (vs_pc # "idle" /\ vs_level = "ai") =>
       /\ local_calls = << >>
       /\ (vs_pc = "returned" =>
             /\ Len(ai_calls) = 1
             /\ ai_calls[1].expectation =
                  (IF vs_expectation \in {<< >>, <<0>>} THEN FallbackPhrase
                                                       ELSE vs_expectation[1])
             /\ vs_ret = ai_calls[1].ret /\ vs_ret # << >>)

C11_Witness ==
  /\ vs_pc = "returned"
  /\ vs_level = "ai"
  /\ vs_expectation = << >>
  /\ local_calls = << >>
  /\ Len(ai_calls) = 1
  /\ ai_calls[1].expectation = FallbackPhrase
  /\ vs_ret = ai_calls[1].ret

\* C12: under hybrid, once the local verdict is a pass of confidence at least
\* 0.8, the AI validator is not invoked and _validate_step returns that local
\* verdict, with or without an expectation.
C12_HighLocalSkipsAI ==
  (vs_level = "hybrid" /\ vs_local # << >> /\ vs_local[1].passed
     /\ vs_local[1].confidence >= 80) =>
    /\ ai_calls = << >>
    /\ vs_pc \in {"hybrid", "returned"}
    /\ (vs_pc = "returned" => vs_ret = vs_local)

C12_Witness ==
  /\ vs_pc = "returned"
  /\ vs_level = "hybrid"
  /\ vs_expectation = <<1>>
  /\ vs_local # << >> /\ vs_local[1].passed /\ vs_local[1].confidence >= 80
  /\ ai_calls = << >>
  /\ vs_ret = vs_local

\* C13: under hybrid, when the local verdict is not a pass of confidence at
\* least 0.8 and the step has an expectation, a return of _validate_step has
\* invoked the AI validator exactly once and returns what it returned, a
\* verdict of method ai_vision, ai_skipped or ai_error, not the local verdict.
C13_LowLocalEscalates ==
  (vs_pc = "returned" /\ vs_level = "hybrid" /\ HasAIValidator(vs_level)
     /\ ~(vs_local[1].passed /\ vs_local[1].confidence >= 80)
     /\ vs_expectation \notin {<< >>, <<0>>}) =>
    /\ Len(ai_calls) = 1
    /\ ai_calls[1].expectation = vs_expectation[1]
    /\ vs_ret = ai_calls[1].ret
    /\ vs_ret # << >>
    /\ vs_ret[1].method \in {"ai_vision", "ai_skipped", "ai_error"}
    /\ vs_ret # vs_local

C13_Witness ==
  /\ vs_pc = "returned"
  /\ vs_level = "hybrid"
  /\ vs_expectation = <<1>>
  /\ vs_local # << >> /\ ~vs_local[1].passed
  /\ Len(ai_calls) = 1
  /\ vs_ret = ai_calls[1].ret
  /\ vs_ret[1].method = "ai_skipped"

\* C14: under hybrid, when the step has no expectation (absent or empty) or
\* the runner has no AI validator, the AI validator is never invoked and the
\* local verdict is returned as it is, whatever its passed flag and confidence.
C14_NoExpectationKeepsLocal ==
  (vs_pc # "idle" /\ vs_level = "hybrid"
     /\ (vs_expectation \in {<< >>, <<0>>} \/ ~HasAIValidator(vs_level))) =>
    /\ ai_calls = << >>
    /\ (vs_pc = "returned" =>
          /\ Len(local_calls) = 1
          /\ vs_local # << >>
          /\ vs_ret = vs_local)

C14_Witness ==
  /\ vs_pc = "returned"
  /\ vs_level = "hybrid"
  /\ vs_expectation = <<0>>
  /\ vs_local # << >> /\ ~vs_local[1].passed
  /\ ai_calls = << >>
  /\ vs_ret = vs_local

\* C30 as stated: under hybrid a failed local verdict is never escalated: the
\* AI validator is not invoked and the step receives the failed local verdict.
C30_FailedLocalNotEscalated ==
  (vs_level = "hybrid" /\ vs_local # << >> /\ ~vs_local[1].passed) =>
    /\ ai_calls = << >>
    /\ (vs_pc = "returned" => vs_ret = vs_local)

\* C30, amended: under hybrid a failed local verdict, whatever its confidence,
\* does not pass the confidence gate; with an expectation it is escalated (the
\* AI validator is invoked once and the step receives its verdict), and it is
\* what the step receives, without an AI call, only when the step has no
\* expectation.
C30_FailedLocalEscalates ==
  (vs_pc = "returned" /\ vs_level = "hybrid" /\ vs_local # << >> /\ ~vs_local[1].passed) =>
    IF vs_expectation \in {<< >>, <<0>>}
      THEN /\ ai_calls = << >>
           /\ vs_ret = vs_local
      ELSE /\ Len(ai_calls) = 1
           /\ ai_calls[1].expectation = vs_expectation[1]
           /\ ai_calls[1].ret # << >>
           /\ vs_ret = ai_calls[1].ret

C30_Witness ==
  /\ vs_pc = "returned"
  /\ vs_level = "hybrid"
  /\ vs_expectation = <<1>>
  /\ vs_local # << >> /\ ~vs_local[1].passed /\ vs_local[1].confidence >= 80
  /\ Len(ai_calls) = 1
  /\ vs_ret[1].method = "ai_vision"
  /\ vs_ret[1].passed

\* the checks validate_step has to run on its arguments, in their order
ChecksDue ==
  (IF lv_before # << >> THEN <<"pixel_difference">> ELSE << >>)
    \o <<"detect_error_indicators">>
    \o (IF lv_expected # << >> /\ lv_expected[1] # << >>
          THEN <<"check_text_exists">> ELSE << >>)

\* C15: LocalValidator.validate_step invokes its checks in the order pixel
\* difference (only with a before), error detection, text check (only with an
\* expected text); the first failed check ends the call with its verdict and
\* no later check is invoked; without a before the pixel difference is never
\* invoked and the verdict's method is never pixel_diff.
C15_ChecksInOrder ==
  /\ Len(lv_checks) <= Len(ChecksDue)
  /\ \A k \in DOMAIN lv_checks : lv_checks[k] = ChecksDue[k]
  /\ \A k \in DOMAIN lv_results :
       ~lv_results[k].passed =>
         /\ k = Len(lv_results) /\ k = Len(lv_checks)
         /\ lv_pc = "returned"
         /\ lv_ret = <<lv_results[k]>>
  /\ lv_pc = "returned" =>
       /\ Len(lv_results) = Len(lv_checks)
       /\ lv_ret[1].passed =>
            /\ lv_checks = ChecksDue
            /\ lv_ret[1].method = "local_combined"
            /\ \A k \in DOMAIN lv_results : lv_results[k].passed
  /\ lv_before = << >> =>
       /\ \A k \in DOMAIN lv_checks : lv_checks[k] # "pixel_difference"
       /\ (lv_pc = "returned" => lv_ret[1].method # "pixel_diff")

C15_Witness ==
  /\ lv_pc = "returned"
  /\ lv_before # << >>
  /\ lv_expected # << >> /\ lv_expected[1] # << >>
  /\ lv_checks = <<"pixel_difference", "detect_error_indicators">>
  /\ lv_results[1].passed
  /\ ~lv_results[2].passed
  /\ lv_ret = <<lv_results[2]>>

\* the confidence of the k-th check run, 0 if there was none
ConfidenceAt(k) == IF k \in DOMAIN lv_results THEN lv_results[k].confidence ELSE 0

\* C31: when every check validate_step ran has passed, the verdict is passed,
\* of method local_combined, and its confidence is the arithmetic mean (in
\* whole percent, rounded down) of the confidences of exactly the checks that
\* ran: 0.8 for the pixel difference, 0.8, 0.5 or 0.0 for the error scan, 0.85
\* or 0.0 for the text check; at least one check has run, so the 0.5 of an
\* empty list is never what is returned.
C31_CombinedIsMean ==
  (lv_pc = "returned" /\ \A k \in DOMAIN lv_results : lv_results[k].passed) =>
    LET n == Len(lv_results)
        total == ConfidenceAt(1) + ConfidenceAt(2) + ConfidenceAt(3)
        ret == lv_ret[1]
    IN /\ ret.passed
       /\ ret.method = "local_combined"
       /\ n >= 1 /\ n <= 3
       /\ lv_checks = ChecksDue /\ n = Len(ChecksDue)
       /\ n * ret.confidence <= total
       /\ total < n * (ret.confidence + 1)
       /\ \A k \in DOMAIN lv_results :
            lv_results[k].confidence \in
              (CASE lv_checks[k] = "pixel_difference" -> {80}
                 [] lv_checks[k] = "detect_error_indicators" -> {80, 50, 0}
                 [] lv_checks[k] = "check_text_exists" -> {85, 0})

C31_Witness ==
  /\ lv_pc = "returned"
  /\ Len(lv_results) = 3
  /\ lv_results[1].confidence = 80
  /\ lv_results[2].confidence = 50
  /\ lv_results[3].confidence = 85
  /\ lv_ret[1] = ValidationResult(TRUE, 71, "local_combined")

\* more than 5% of the pixels of a screenshot are red
RedCoverage(img) == Cardinality({k \in DOMAIN img : img[k] = "red"}) * 20 > Len(img)

\* the text read holds an error keyword
HasKeyword(text) ==
  \E word \in ErrorWords, pre \in Texts, post \in Texts : Lower(text) = pre \o word \o post

\* the error_indicator anomalies the video detector reports for a readable
\* frame, given what the scan of the frame reads
ErrorIndicators(img, available, text) ==
  SelectSeq(FrameAnomalies(img, << >>, 0, available, text),
            LAMBDA a : a.type = "error_indicator")

\* C32 as stated: detect_error_indicators returns failed (0.9) only when red
\* covers more than 5% and OCR is available and finds an error keyword; red
\* above 5% without a keyword gives passed/0.5 and everything else passed/0.8;
\* so without OCR the scan never fails and the video detector reports no
\* error_indicator.
C32_ErrorScan ==
  fn_call.fn = "detect_error_indicators" =>
    LET img == fn_call.screenshot
        ret == fn_call.ret
        found == fn_call.available /\ HasKeyword(fn_call.text)
    IN /\ ret = (IF RedCoverage(img) /\ found THEN ValidationResult(FALSE, 90, "error_detection")
                 ELSE IF RedCoverage(img) THEN ValidationResult(TRUE, 50, "error_detection")
                 ELSE ValidationResult(TRUE, 80, "error_detection"))
       /\ ~fn_call.available => ret.passed
       /\ (~fn_call.available /\ img # Unreadable) =>
            ErrorIndicators(img, fn_call.available, fn_call.text) = << >>

\* C32, amended: a screenshot that cannot be read gives passed/0.0; on a
\* readable one the scan returns failed (0.9) exactly when red covers more
\* than 5% and OCR is available and finds an error keyword, passed/0.5 when
\* red covers more than 5% without that, and passed/0.8 otherwise; so without
\* OCR the scan never fails, and the video detector, which reports an
\* error_indicator exactly when the scan of a frame fails, reports none.
C32_ErrorScanReadable ==
  fn_call.fn = "detect_error_indicators" =>
    LET img == fn_call.screenshot
        ret == fn_call.ret
        found == fn_call.available /\ HasKeyword(fn_call.text)
    IN /\ ret = (IF img = Unreadable THEN ValidationResult(TRUE, 0, "error_detection")
                 ELSE IF RedCoverage(img) /\ found
                   THEN ValidationResult(FALSE, 90, "error_detection")
                 ELSE IF RedCoverage(img) THEN ValidationResult(TRUE, 50, "error_detection")
                 ELSE ValidationResult(TRUE, 80, "error_detection"))
       /\ ~fn_call.available => ret.passed
       /\ img # Unreadable =>
            /\ Len(ErrorIndicators(img, fn_call.available, fn_call.text))
                 = (IF ret.passed THEN 0 ELSE 1)
            /\ ~fn_call.available =>
                 ErrorIndicators(img, fn_call.available, fn_call.text) = << >>

C32_Witness ==
  /\ fn_call.fn = "detect_error_indicators"
  /\ ~fn_call.available
  /\ fn_call.screenshot = <<"red", "red">>
  /\ fn_call.text = <<"e">>
  /\ fn_call.ret = ValidationResult(TRUE, 50, "error_detection")

\* the pixels of before that differ from the pixel of after at their place,
\* after being brought to before's size
ChangedPixels(before, after) ==
  LET resized == IF Len(after) = Len(before) THEN after ELSE Resize(after, Len(before))
  IN {k \in 1..Len(before) : before[k] # resized[k]}

\* C16: pixel_difference returns failed with confidence 0.9 for every readable
\* pair whose after equals its before and every threshold above 0; for a
\* readable pair it returns failed/0.9 exactly when the ratio of changed pixels
\* is strictly below the threshold and passed/0.8 otherwise; it returns
\* failed/0.0 when either capture is unreadable.
C16_PixelDifference ==
  fn_call.fn = "pixel_difference" =>
    LET before == fn_call.before
        after == fn_call.after
        ret == fn_call.ret
    IN /\ ret.method = "pixel_diff"
       /\ IF before = << >> \/ after = << >>
            THEN ~ret.passed /\ ret.confidence = 0
            ELSE /\ (after = before /\ fn_call.threshold > 0) =>
                      (~ret.passed /\ ret.confidence = 90)
                 /\ IF Cardinality(ChangedPixels(before, after)) * 100
                          < fn_call.threshold * Len(before)
                      THEN ~ret.passed /\ ret.confidence = 90
                      ELSE ret.passed /\ ret.confidence = 80

C16_Witness ==
  /\ fn_call.fn = "pixel_difference"
  /\ fn_call.before # << >>
  /\ fn_call.after = fn_call.before
  /\ fn_call.threshold = 100
  /\ ~fn_call.ret.passed
  /\ fn_call.ret.confidence = 90

\* C17: without an OCR engine check_text_exists returns passed = true,
\* confidence 0.0, method ocr for every screenshot and expected text; with one
\* it returns passed or failed at confidence 0.85 according to whether the
\* expected text is a part of the text read (both in lower case unless the
\* call is case sensitive).
C17_TextCheckSoftPass ==
  fn_call.fn = "check_text_exists" =>
    LET ret == fn_call.ret
        text == IF fn_call.case_sensitive THEN fn_call.text ELSE Lower(fn_call.text)
        expected == IF fn_call.case_sensitive THEN fn_call.expected_text
                                              ELSE Lower(fn_call.expected_text)
    IN /\ ret.method = "ocr"
       /\ IF ~fn_call.available
            THEN ret.passed /\ ret.confidence = 0
            ELSE /\ ret.confidence = 85
                 /\ ret.passed <=>
                      \E pre \in Texts, post \in Texts : text = pre \o expected \o post

C17_Witness ==
  /\ fn_call.fn = "check_text_exists"
  /\ ~fn_call.available
  /\ fn_call.text = <<"e">>
  /\ fn_call.expected_text = <<"w", "w">>
  /\ fn_call.ret = [passed |-> TRUE, confidence |-> 0, method |-> "ocr"]

\* C18: validate never fails a step because the provider is unavailable: a
\* missing API key, a timeout, a status that is not 2xx and any other failure
\* of the provider call, a body that cannot be decoded into the expected
\* structure included, end in a verdict with passed = true and confidence 0.0,
\* never in an exception leaving validate.
C18_ProviderFailureSoftPass ==
  (av_pc \in {"returned", "raised"}
     /\ (~av_api_key \/ (av_reply # << >> /\ av_reply[1].kind # "text"))) =>
    /\ av_pc = "returned"
    /\ av_raised = "none"
    /\ av_ret[1].passed
    /\ av_ret[1].confidence = 0

\* the line carries the label: its lower case holds the label's text
CarriesLabel(line, label) == \E k \in DOMAIN line : WordLower(line[k]) = label

\* the result label, in either language
CarriesResultLabel(line) == CarriesLabel(line, "sonuc:") \/ CarriesLabel(line, "result:")

CarriesAnyLabel(line) ==
  \/ CarriesResultLabel(line)
  \/ \E label \in {"confidence:", "explanation:"} : CarriesLabel(line, label)

\* C19: _parse_ai_response is fail-open: lines that carry none of the three
\* labels change nothing, a response without a line carrying the confidence
\* label gets confidence 0.5, a response without a line carrying the result
\* label gets passed = true, and passed = false comes only from a line
\* carrying the result label.
C19_ParseFailOpen ==
  (av_pc = "returned" /\ av_reply # << >> /\ av_reply[1].kind = "text") =>
    LET content == av_reply[1].content
        ret == av_ret[1]
        labelled == parse_ai_response(SelectSeq(content, CarriesAnyLabel))
    IN /\ ret.method = "ai_vision"
       /\ ret.passed = labelled.passed
       /\ ret.confidence = labelled.confidence
       /\ ret.reason = (IF labelled.reason = SelectSeq(content, CarriesAnyLabel)
                          THEN content ELSE labelled.reason)
       /\ (\A k \in DOMAIN content : ~CarriesLabel(content[k], "confidence:"))
            => ret.confidence = 50
       /\ (\A k \in DOMAIN content : ~CarriesResultLabel(content[k]))
            => ret.passed
       /\ ~ret.passed => \E k \in DOMAIN content : CarriesResultLabel(content[k])

C19_Witness ==
  /\ av_pc = "returned"
  /\ av_reply # << >>
  /\ av_reply[1].kind = "text"
  /\ av_reply[1].content = << <<"85", "ok">>, <<"ok">> >>
  /\ av_ret[1].passed
  /\ av_ret[1].confidence = 50
  /\ av_ret[1].method = "ai_vision"

\* C20: every verdict a validator produces has a confidence within [0, 1]:
\* each local check, the local combination, and the AI validator's verdict
\* for every answer of the provider, a confidence line with a number above
\* 100 included.
C20_ConfidenceInUnitInterval ==
  /\ \A k \in DOMAIN lv_results : lv_results[k].confidence \in 0..100
  /\ \A k \in DOMAIN lv_ret : lv_ret[k].confidence \in 0..100
  /\ fn_call.fn # "none" => fn_call.ret.confidence \in 0..100
  /\ \A k \in DOMAIN av_ret : av_ret[k].confidence \in 0..100

\* C21: for every step outcome, truly_passed is false whenever the runner
\* failed, whatever the verdict; status is failed if the runner failed, else
\* visual_mismatch if there is a verdict and it did not pass, else passed; and
\* the run's passed flag is true exactly when every step truly passed.
C21_StepStatus ==
  /\ \A k \in DOMAIN step_results :
       LET sr == step_results[k]
           has_verdict == sr.validation_result # << >>
       IN /\ ~sr.maestro_passed => ~TrulyPassed(sr)
          /\ TrulyPassed(sr) <=>
               (sr.maestro_passed /\ (has_verdict => sr.validation_result[1].passed))
          /\ ~sr.maestro_passed => StepStatus(sr) = "failed"
          /\ (sr.maestro_passed /\ has_verdict /\ ~sr.validation_result[1].passed)
               => StepStatus(sr) = "visual_mismatch"
          /\ (sr.maestro_passed /\ (has_verdict => sr.validation_result[1].passed))
               => StepStatus(sr) = "passed"
  /\ TestResultPassed(step_results) <=>
       ~\E k \in DOMAIN step_results :
          \/ ~step_results[k].maestro_passed
          \/ /\ step_results[k].validation_result # << >>
             /\ ~step_results[k].validation_result[1].passed

C21_Witness ==
  /\ orch_pc = "returned"
  /\ Len(step_results) = 2
  /\ ~step_results[1].maestro_passed
  /\ step_results[1].validation_result # << >>
  /\ step_results[1].validation_result[1].passed
  /\ StepStatus(step_results[1]) = "failed"
  /\ StepStatus(step_results[2]) = "visual_mismatch"
  /\ ~TestResultPassed(step_results)

\* C22: at every point of a run the summary equals what the step list gives
\* when counted directly: total_steps the number of steps, passed the number
\* of truly passed steps, failed = total_steps - passed, visual_mismatches the
\* number of steps of status visual_mismatch; so visual_mismatches <= failed
\* and passed + failed = total_steps.
C22_SummaryRecomputes ==
  LET summary == Summary(step_results)
      truly == {k \in DOMAIN step_results :
                  /\ step_results[k].maestro_passed
                  /\ (step_results[k].validation_result # << >>
                        => step_results[k].validation_result[1].passed)}
      mismatch == {k \in DOMAIN step_results :
                     /\ step_results[k].maestro_passed
                     /\ step_results[k].validation_result # << >>
                     /\ ~step_results[k].validation_result[1].passed}
  IN /\ summary.total_steps = Len(step_results)
     /\ summary.passed = Cardinality(truly)
     /\ summary.failed = summary.total_steps - summary.passed
     /\ summary.visual_mismatches = Cardinality(mismatch)
     /\ summary.visual_mismatches <= summary.failed
     /\ summary.passed + summary.failed = summary.total_steps

C22_Witness ==
  /\ orch_pc = "before"
  /\ Len(step_results) = 2
  /\ Summary(step_results) =
       [total_steps |-> 2, passed |-> 1, failed |-> 1, visual_mismatches |-> 1]

\* the events of the trace that belong to one step, in order
EventsOf(step) == SelectSeq(events, LAMBDA e : e.step = step /\ e.ev # "finished")

\* how often an event occurs in the trace
EventCount(ev, step) == Cardinality({n \in DOMAIN events : events[n] = Event(ev, step)})

\* C27: for every step i >= 1 the outcome's capture_before is the capture
\* recorded as step i-1's capture_after, and no pre-step capture is attempted;
\* a pre-step capture is attempted for step 0 only, and when it fails the
\* failure is swallowed: capture_before is absent and the step goes on to the
\* runner and to validation.
C27_BeforeReusesAfter ==
  /\ \A k \in DOMAIN step_results :
       k >= 2 => /\ step_results[k].screenshot_before # << >>
                 /\ step_results[k].screenshot_before = step_results[k - 1].screenshot_after
  /\ \A n \in DOMAIN events : events[n].ev = "pre_capture" => events[n].step = 0
  /\ EventCount("pre_capture", 0) = (IF EventsOf(0) # << >> THEN 1 ELSE 0)
  /\ (events # << >> /\ events[Len(events)].ev = "pre_capture") =>
       /\ orch_pc = "run_step"
       /\ orch_raised = "none"
  /\ \A k \in DOMAIN step_results :
       /\ EventCount("runner", k - 1) = 1
       /\ EventCount("validate", k - 1) = 1
       /\ k = 1 => step_results[k].screenshot_before \in {<< >>, <<1>>}

C27_Witness ==
  /\ orch_pc = "returned"
  /\ Len(step_results) = 2
  /\ step_results[1].screenshot_before = << >>
  /\ step_results[2].screenshot_before = step_results[1].screenshot_after
  /\ EventCount("pre_capture", 0) = 1
  /\ EventCount("pre_capture", 1) = 0

\* the order of a step's events
StepOrder == <<"pre_capture", "runner", "post_capture", "validate", "append", "observer">>

\* the kinds of a step's events, in the order they happened
KindsOf(step) == LET of == EventsOf(step) IN [n \in DOMAIN of |-> of[n].ev]

\* seq is the beginning of StepOrder, or of StepOrder without the pre-capture
\* (a step that reuses a capture)
IsStepPrefix(seq) ==
  /\ Len(seq) <= Len(StepOrder)
  /\ \/ seq = SubSeq(StepOrder, 1, Len(seq))
     \/ seq = SubSeq(StepOrder, 2, Len(seq) + 1)

\* C28: the events of each step happen in the order pre-capture (if any),
\* runner, post-capture, validation, append, observer; the runner is invoked
\* once per step, never again; the runner of step i+1 starts only after the
\* validation of step i; finished_at is set only after the last outcome is
\* appended and nothing is appended afterwards.
C28_StepEventsInOrder ==
  /\ \A step \in 0..(MaxSteps - 1) :
       LET kinds == KindsOf(step)
           runs == Len(SelectSeq(kinds, LAMBDA ev : ev = "runner"))
       IN /\ IsStepPrefix(kinds)
          /\ runs <= 1
          /\ step < Len(step_results) => runs = 1
  /\ \A n \in DOMAIN events :
       (events[n].ev = "runner" /\ events[n].step > 0) =>
         \E m \in 1..(n - 1) : events[m] = Event("validate", events[n].step - 1)
  /\ \A n \in 1..(Len(events) - 1) : events[n].step <= events[n + 1].step
  /\ Len(runner_log) = Cardinality({n \in DOMAIN events : events[n].ev = "runner"})
  /\ finished <=> \E n \in DOMAIN events : events[n].ev = "finished"
  /\ finished =>
       /\ events[Len(events)].ev = "finished"
       /\ Cardinality({n \in DOMAIN events : events[n].ev = "finished"}) = 1
       /\ Len(step_results) = test_case.steps
       /\ \A step \in 0..(test_case.steps - 1) : EventCount("append", step) = 1

C28_Witness ==
  /\ orch_pc = "returned"
  /\ finished
  /\ has_observer
  /\ Len(step_results) = 2
  /\ ~runner_log[1]
  /\ KindsOf(0) = StepOrder
  /\ KindsOf(1) = Tail(StepOrder)

\* C29: a supplied observer is called once per step, in increasing index
\* order, each time with the outcome just appended (at the k-th call the run
\* holds k outcomes), and what it returns changes nothing: the run goes on to
\* the next step.
C29_ObserverOncePerStep ==
  /\ [](has_observer =>
         /\ \A n \in DOMAIN observer_log :
              /\ observer_log[n].index = n - 1
              /\ observer_log[n].seen = n
         /\ Len(observer_log) =
              (IF orch_pc = "observer" THEN Len(step_results) - 1 ELSE Len(step_results))
         /\ \A step \in 0..MaxSteps :
              EventCount("observer", step) = (IF step < Len(observer_log) THEN 1 ELSE 0))
  /\ [][(orch_pc = "observer" /\ orch_pc' # "raised") =>
          /\ orch_pc' = "loop"
          /\ i' = i + 1
          /\ step_results' = step_results
          /\ test_case' = test_case]_vars

C29_Witness ==
  /\ orch_pc = "returned"
  /\ has_observer
  /\ Len(observer_log) = 3
  /\ Len(step_results) = 3

\* ------------------------------------------------ dashboard single run: claims
\* C25: whatever the interleaving of handle_run and its worker thread, the run
\* has a registry entry that reaches a terminal status: once the handler has
\* replied and the worker has ended, the entry is passed, failed or error (it
\* is not left at running for ever), and the worker never reaches for an entry
\* that is not there yet.
C25_RunEntryReachesTerminal ==
  /\ (run_handler_pc = "replied" /\ run_pc \in {"returned", "died"}) =>
       /\ RunId \in DOMAIN test_runs
       /\ test_runs[RunId].status \in Terminal
  /\ run_raised # "keyerror"
  /\ run_pc # "died"

\* C34: entries of the registry are only added, never removed, and once the
\* status of an entry is passed, failed or error, no later write of a handler
\* or worker changes it; none sets it back to running.
C34_TerminalStatusKept ==
  [][\A id \in DOMAIN test_runs :
       /\ id \in DOMAIN test_runs'
       /\ test_runs[id].status \in Terminal =>
            test_runs'[id].status = test_runs[id].status]_vars

\* a worker positioned at a runner invocation or at a device capture has that
\* call in flight
HealUsesDevice == heal_pc = "maestro"

RunUsesDevice == run_pc \in {"before_shot", "maestro", "after_shot"}

\* C26: two runs started through the dashboard never have a runner invocation
\* or a device capture in flight against the same device identifier: runs that
\* name the same device are serialized.
C26_SameDeviceSerialized ==
  ~(device_id = run_device /\ HealUsesDevice /\ RunUsesDevice)

\* ---------------------------------------------------- VideoAnalyzer: claims
\* C23: the result of analyze_video has success false exactly when the anomaly
\* list holds a high-severity anomaly (so success is true whenever none is
\* reported, also when no frame could be extracted), and critical_anomalies is
\* the number of high-severity entries.
C23_SuccessIffNoHighSeverity ==
  va_pc = "returned" =>
    LET ret == va_ret[1]
        anomalies == IF "anomalies" \in DOMAIN ret THEN ret.anomalies ELSE << >>
        high == {k \in DOMAIN anomalies : anomalies[k].severity = "high"}
    IN /\ ret.success = FALSE <=> high # {}
       /\ "critical_anomalies" \in DOMAIN ret
       /\ ret.critical_anomalies = Cardinality(high)

\* the positions (from 0) of the frames whose mean luminance is below the dark
\* threshold
DarkPositions ==
  {k \in 0..(Len(va_seen) - 1) :
     /\ va_seen[k + 1].readable
     /\ va_seen[k + 1].dark}

\* C24: when exactly one frame of the extracted sequence, at position k >= 1,
\* has a mean luminance below the dark threshold, the scan reports exactly one
\* black_screen anomaly, with frame_index k (the position in the extracted
\* sequence, unreadable frames included), severity high, and the result's
\* success is false.
C24_OneDarkFrame ==
  \A k \in 1..(MaxFrames - 1) :
    (va_pc \in {"ai", "result", "returned"} /\ va_frames > 0 /\ DarkPositions = {k}) =>
      LET black == SelectSeq(va_anomalies, LAMBDA a : a.type = "black_screen")
      IN /\ Len(black) = 1
         /\ black[1].frame_index = k
         /\ black[1].severity = "high"
         /\ va_pc = "returned" =>
              /\ va_ret[1].success = FALSE
              /\ va_ret[1].anomalies = va_anomalies

\* C33: the first frame of the sequence is never reported as black_screen or
\* as sudden_change: the luminance check and the difference with the previous
\* readable frame are applied to the frames after the first only.
C33_FirstFrameNotReported ==
  \A n \in DOMAIN va_anomalies :
    va_anomalies[n].type \in {"black_screen", "sudden_change"} =>
      va_anomalies[n].frame_index >= 1

C24_Witness ==
  /\ va_pc = "returned"
  /\ va_frames = 3
  /\ ~va_seen[1].readable
  /\ va_seen[2].readable
  /\ DarkPositions = {2}
  /\ va_ret[1].success = FALSE
  /\ \E n \in DOMAIN va_ret[1].anomalies :
       va_ret[1].anomalies[n] = Anomaly("black_screen", 2, "high")

\* C35: an answer whose result line carries the positive label as the prompt
\* asks for it, in upper case, is parsed into passed = true, and one whose
\* result line carries the negative label into passed = false.
C35_PromptLabelsParsed ==
  (av_pc = "returned" /\ av_reply # << >> /\ av_reply[1].kind = "text") =>
    LET content == av_reply[1].content
        result_lines == SelectSeq(content, CarriesResultLabel)
    IN Len(result_lines) = 1 =>
         /\ result_lines[1] = <<"SONUC:", "BASARILI">> => av_ret[1].passed
         /\ result_lines[1] = <<"SONUC:", "BASARISIZ">> => ~av_ret[1].passed

\* the validator could not judge: it has no API key, or the provider call
\* ended in a timeout or in a status that is not 2xx
ValidatorUnavailable ==
  \/ ~av_api_key
  \/ av_reply # << >> /\ av_reply[1].kind \in {"timeout", "status"}

\* the failed verdicts of the local validator for a step that has a before
\* capture and an expectation
FailedLocalResults == {r \in LocalResults(<<1>>, <<1>>) : ~r.passed}

\* C36: under hybrid, with an expectation and an AI validator whose API key is
\* missing or whose provider call fails, a step whose local verdict is failed
\* receives the verdict passed at confidence 0 of method ai_skipped or
\* ai_error, and counts as truly passed whenever the runner passed.
C36_FailedLocalSoftPassed ==
  (av_pc \in {"returned", "raised"} /\ ValidatorUnavailable) =>
    /\ av_pc = "returned"
    /\ \A local \in FailedLocalResults :
         LET received == ValidateStep("hybrid", HasAIValidator("hybrid"), <<1>>,
                                      local, av_ret[1])
         IN /\ received # << >>
            /\ received[1].passed
            /\ received[1].confidence = 0
            /\ received[1].method \in {"ai_skipped", "ai_error"}
            /\ \A runner_passed \in BOOLEAN :
                 TrulyPassed([maestro_passed |-> runner_passed,
                              validation_result |-> received]) = runner_passed

\* the validator was called with a key and the provider did not answer in time
C36_Witness ==
  /\ av_pc = "returned"
  /\ av_api_key
  /\ av_reply # << >>
  /\ av_reply[1].kind = "timeout"
  /\ av_ret # << >>
  /\ av_ret[1].method = "ai_error"
  /\ \E local \in FailedLocalResults : local.method = "pixel_diff" /\ local.confidence = 90

\* C37: without an OCR engine, the local verdict of a step that has a
\* non-empty expectation, when it passes, has a combined confidence strictly
\* below 0.8 (the text check counts with 0.0); under hybrid the verdict never
\* passes the confidence gate and the AI validator's verdict is what the step
\* receives.
C37_NoOcrAlwaysEscalates ==
  (lv_pc = "returned" /\ ~tesseract /\ TextGiven(lv_expected)) =>
    /\ lv_ret[1].passed => lv_ret[1].confidence < 80
    /\ ~HighConfidencePass(lv_ret[1])
    /\ Escalates("hybrid", <<1>>)
    /\ \A a \in AIResults :
         ValidateStep("hybrid", HasAIValidator("hybrid"), <<1>>, lv_ret[1], a) = <<a>>

\* the three checks ran without an OCR engine and all passed: 0.8, 0.8, 0.0
C37_Witness ==
  /\ lv_pc = "returned"
  /\ ~tesseract
  /\ TextGiven(lv_expected)
  /\ Len(lv_results) = 3
  /\ lv_results[1].confidence = 80
  /\ lv_results[2].confidence = 80
  /\ lv_results[3] = ValidationResult(TRUE, 0, "ocr")
  /\ lv_ret = <<ValidationResult(TRUE, 53, "local_combined")>>

\* how a call of analyze_and_fix_test failed, if it did: GROQ_API_KEY is not
\* set (app.py 641-643), or the call, its timeout or the decoding of its
\* reply raised (app.py 656-658, 664-666)
RepairFailure(api_key, reply) ==
  IF ~api_key THEN "no_key" ELSE IF reply = << >> THEN "raised" ELSE "none"

\* C38: a failure of the repair collaborator (no API key, or the call, its
\* timeout or the decoding of its reply raising) never moves the self-healing
\* loop to error: the repair call returns the submitted definition unchanged,
\* and a repair call that returns the definition it was given leaves the
\* status running, goes on with the loop, and the next attempt runs that same
\* definition.
C38_RepairFailureKeepsDefinition ==
  /\ [](/\ \A yaml \in YamlTexts, api_key \in BOOLEAN, reply \in Replies :
             RepairFailure(api_key, reply) # "none" =>
               analyze_and_fix_test(yaml, api_key, reply) = yaml
        /\ \A k \in DOMAIN fix_calls :
             fix_calls[k].ret = fix_calls[k].yaml =>
               /\ maestro_calls[k].yaml = fix_calls[k].yaml
               /\ k + 1 \in DOMAIN maestro_calls =>
                    maestro_calls[k + 1].yaml = maestro_calls[k].yaml)
  /\ [][(/\ Len(fix_calls') = Len(fix_calls) + 1
         /\ fix_calls'[Len(fix_calls')].ret = fix_calls'[Len(fix_calls')].yaml) =>
          /\ heal_pc' = "loop"
          /\ raised' = raised
          /\ retry_count' = retry_count + 1
          /\ current_yaml' = current_yaml
          /\ test_runs' = test_runs
          /\ HealRun.status = "running"]_vars

\* a repair call returned the definition it was given, and the attempt after
\* it ran the definition of the attempt before
C38_Witness ==
  /\ Len(fix_calls) >= 1
  /\ fix_calls[1].ret = fix_calls[1].yaml
  /\ analyze_and_fix_test(fix_calls[1].yaml, TRUE, << >>) = fix_calls[1].ret
  /\ Len(maestro_calls) >= 2
  /\ maestro_calls[2].yaml = maestro_calls[1].yaml
  /\ maestro_calls[2].yaml # EmptyYaml
  /\ HealRun.status = "running"

\* ------------------------------------------------- dashboard suite run: claims
SuiteTerminal == SuiteId \in DOMAIN test_runs /\ test_runs[SuiteId].status \in Terminal

\* C39: every suite run started through handle_run_suite eventually reaches a
\* terminal status in the registry, whatever its member tests and the
\* interleaving of the handler and the worker: the suite's entry does not stay
\* at running for ever.
C39_SuiteReachesTerminal == (suite_handler_pc = "started") ~> SuiteTerminal

SpecHeal == Init /\ [][HealNext]_vars

SpecRun == Init /\ [][RunNext]_vars

\* a self-healing run and a single run, each on its own worker thread
WebNext == HealNext \/ RunNext

SpecWeb == Init /\ [][WebNext]_vars

SpecOrch == Init /\ [][OrchNext]_vars

SpecStep == Init /\ [][VsNext]_vars

SpecLocal == Init /\ [][LvNext]_vars

SpecAI == Init /\ [][AvNext]_vars

SpecVideo == Init /\ [][VaNext]_vars

SpecSuite == Init /\ [][SuiteNext]_vars

\* the steps of the suite's worker thread
SuiteWorker ==
  \/ SuiteNotFound
  \/ SuiteLoad
  \/ SuiteRunMember
  \/ SuiteMemberExcept
  \/ SuiteFinish

\* the handler's thread and the worker's thread are both scheduled as long as
\* they have a step to take
SpecSuiteFair ==
  /\ SpecSuite
  /\ WF_vars(HandleRunSuiteRegister)
  /\ WF_vars(SuiteWorker)
====
